---- MODULE Spec2Model ----
(***************************************************************************)
(* The ROHC TCP compression profile of src/src/comp/c_tcp.c as a state     *)
(* machine: one compression context, created from a first packet by        *)
(* c_tcp_create, matched against packets by c_tcp_check_context and fed    *)
(* with packets by c_tcp_encode.                                           *)
(*                                                                         *)
(* The host is little endian (WORDS_BIGENDIAN undefined): a multi-byte     *)
(* field of a packet is held as the number the C code reads from memory,   *)
(* so ntohs() and ntohl() are byte swaps and never the identity.           *)
(***************************************************************************)
EXTENDS Integers, Sequences, FiniteSets, TLC

(***************************************************************************)
(* Bounds of the model.                                                    *)
(***************************************************************************)
\* c_tcp_encode calls that reach the MSN increment, per context
MaxCalls == 4

(***************************************************************************)
(* Machine arithmetic.                                                     *)
(***************************************************************************)
Pow16 == 65536

\* swab16(): the two bytes of a 16-bit value exchanged
swab16(x) == (x % 256) * 256 + (x \div 256)

\* ntohs() / htons() on a little-endian host
ntohs(x) == swab16(x)

\* a uint32_t as the pair <<high 16 bits, low 16 bits>>
U32(n) == <<n \div Pow16, n % Pow16>>

\* ntohl() / htonl() on a little-endian host: the four bytes reversed
ntohl(w) == <<swab16(w[2]), swab16(w[1])>>

\* F applied to the value of e, a local variable of the code: e is
\* evaluated once
With(e, F(_)) == CHOOSE r \in {F(v) : v \in {e}} : TRUE

(***************************************************************************)
(* protocols/ipproto.h: the protocols the code names, and the two flags of *)
(* the ipproto_specifications[] table.                                     *)
(***************************************************************************)
IsIPv6Option(protocol) ==
    protocol \in {"HOPOPTS", "ROUTING", "DSTOPTS", "GRE", "MINE", "AH"}

IsIPTunneling(protocol) == protocol \in {"IPIP", "IPV6"}

(***************************************************************************)
(* Sizes of the structures the code measures with sizeof().                *)
(***************************************************************************)
SizeofIPv4Hdr == 20

SizeofIPv6Hdr == 40

SizeofTcpHdr == 20

\* IP-ID behaviours (RFC 4996 ip_id_behavior_choice, plus the code's UNKNOWN)
IP_ID_BEHAVIOR_SEQUENTIAL == 0

IP_ID_BEHAVIOR_SEQUENTIAL_SWAPPED == 1

IP_ID_BEHAVIOR_RANDOM == 2

IP_ID_BEHAVIOR_ZERO == 3

IP_ID_BEHAVIOR_UNKNOWN == 4

(***************************************************************************)
(* Packets.  A packet is the memory the code reads: the chain of IP        *)
(* headers (ip), the 20 bytes that follow the chain read as a tcphdr_t     *)
(* (tcp), and the length ip->size the framework announces (size).  When    *)
(* size is smaller than the headers, the fields beyond size are whatever   *)
(* the buffer holds.                                                       *)
(***************************************************************************)
\* an IPv6 extension header: next header, length byte, the flag bits the
\* GRE (c_flag, k_flag, s_flag) and MIME (s_bit) layouts hold, and the bytes
\* after the length byte (value)
IPv6Opt(next, len) ==
    [next_header |-> next, length |-> len, c_flag |-> 0, k_flag |-> 0,
     s_flag |-> 0, s_bit |-> 0, value |-> 0]

\* base_header_ip_v4_t with the fields the code reads
IPv4Hdr(proto, id, total) ==
    [version |-> 4, header_length |-> 5, dscp |-> 0, ip_ecn_flags |-> 0,
     length |-> ntohs(total), ip_id |-> ntohs(id), rf |-> 0, df |-> 1,
     mf |-> 0, ttl_hopl |-> 64, protocol |-> proto, src_addr |-> 1,
     dest_addr |-> 2, flow_label1 |-> 0, flow_label2 |-> 0, opts |-> <<>>]

\* base_header_ip_v6_t with the fields the code reads
IPv6Hdr(next, payload, options) ==
    [version |-> 6, header_length |-> 0, dscp |-> 0, ip_ecn_flags |-> 0,
     length |-> ntohs(payload), ip_id |-> 0, rf |-> 0, df |-> 0, mf |-> 0,
     ttl_hopl |-> 64, protocol |-> next, src_addr |-> 3, dest_addr |-> 4,
     flow_label1 |-> 0, flow_label2 |-> 5, opts |-> options]

\* tcphdr_t: ports, numbers, window and urgent pointer in network order;
\* options are the TCP options that follow the header
TcpHdr(sport, dport, seq, ack) ==
    [src_port |-> ntohs(sport), dst_port |-> ntohs(dport),
     seq_number |-> ntohl(U32(seq)), ack_number |-> ntohl(U32(ack)),
     data_offset |-> 5, tcp_res_flags |-> 0, tcp_ecn_flags |-> 0,
     urg_flag |-> 0, ack_flag |-> 1, psh_flag |-> 0, rsf_flags |-> 0,
     window |-> ntohs(4000), checksum |-> 4660, urg_ptr |-> 0,
     options |-> <<>>]

\* the kinds and lengths of the TCP options of the model
TCP_OPT_EOL == 0

TCP_OPT_NOP == 1

TCP_OPT_TIMESTAMP == 8

TCP_OLEN_TIMESTAMP == 10

TCP_OLEN_SACK_PERMITTED == 4

\* the bytes of tcp_options_values[]
MAX_TCP_OPT_SIZE == 256

\* the indexes of the options with a fixed place in the table
TCP_INDEX_EOL == 0

TCP_INDEX_NOP == 1

TCP_INDEX_MAXSEG == 2

TCP_INDEX_WINDOW == 3

TCP_INDEX_SACK_PERMITTED == 4

TCP_INDEX_SACK == 5

TCP_INDEX_TIMESTAMP == 8

MAX_TCP_OPTION_INDEX == 16

\* tcp_options_index[]: the index of the option of a kind, at kind + 1
tcp_options_index ==
    <<TCP_INDEX_EOL, TCP_INDEX_NOP, TCP_INDEX_MAXSEG, TCP_INDEX_WINDOW,
      TCP_INDEX_SACK_PERMITTED, TCP_INDEX_SACK, 7, 8, TCP_INDEX_TIMESTAMP,
      9, 10, 11, 12, 13, 14, 15>>

\* a NOP option: one byte
TcpOptNop == [kind |-> TCP_OPT_NOP, len |-> 1, value |-> <<>>]

\* an option without a field of its own in the context: kind, length and
\* the bytes of its value
TcpOptGeneric(kind, bytes) ==
    [kind |-> kind, len |-> 2 + Len(bytes), value |-> bytes]

\* a TIMESTAMP option: kind, length, TSval and TSecr in network order
TcpOptTimestamp(tsval, tsecr) ==
    [kind |-> TCP_OPT_TIMESTAMP, len |-> TCP_OLEN_TIMESTAMP,
     value |-> <<ntohl(U32(tsval)), ntohl(U32(tsecr))>>]

\* a TCP header followed by NOP, NOP, TIMESTAMP: 32 bytes
TcpTs(tcphdr, tsval, tsecr) ==
    [tcphdr EXCEPT !.data_offset = 8,
                   !.options = <<TcpOptNop, TcpOptNop,
                                 TcpOptTimestamp(tsval, tsecr)>>]

\* the bytes of the options from the k-th on
RECURSIVE OptionsBytes(_, _)
OptionsBytes(options, k) ==
    IF k > Len(options) THEN 0
    ELSE options[k].len + OptionsBytes(options, k + 1)

\* a TCP header followed by the options given, which fill a whole number
\* of 32-bit words
TcpWith(tcphdr, options) ==
    [tcphdr EXCEPT !.data_offset = 5 + (OptionsBytes(options, 1) \div 4),
                   !.options = options]

Packet(chain, tcphdr, len) == [ip |-> chain, tcp |-> tcphdr, size |-> len]

\* the transport header of the flows: ports 100 -> 200
Tcp0 == TcpHdr(100, 200, 1000, 5000)

\* what a flow's TCP header becomes from one packet to another
TcpVariants ==
    {Tcp0,
     [Tcp0 EXCEPT !.seq_number = ntohl(U32(1010))],
     [Tcp0 EXCEPT !.ack_number = ntohl(U32(5010))],
     [Tcp0 EXCEPT !.window = ntohs(4010)],
     [Tcp0 EXCEPT !.tcp_ecn_flags = 1]}

\* IPv4 / TCP
PktV4(id, tcphdr, len) == Packet(<<IPv4Hdr("TCP", id, len)>>, tcphdr, len)

\* IPv6 / TCP
PktV6(tcphdr, len) == Packet(<<IPv6Hdr("TCP", len - 40, <<>>)>>, tcphdr, len)

\* IPv4 / IPv4 / TCP (IP-in-IP tunnel)
PktTunnel(outer_id, id, tcphdr, len) ==
    Packet(<<IPv4Hdr("IPIP", outer_id, len), IPv4Hdr("TCP", id, len - 20)>>,
           tcphdr, len)

\* IPv6 / one extension header / TCP
PktV6Ext(ext, tcphdr, len) ==
    Packet(<<IPv6Hdr(ext, len - 40, <<IPv6Opt("TCP", 0)>>)>>, tcphdr, len)

\* the first header of a packet, changed by f
WithOuter(p, f(_)) == [p EXCEPT !.ip[1] = f(p.ip[1])]

SetTtl(h) == [h EXCEPT !.ttl_hopl = 63]

SetDf(h) == [h EXCEPT !.df = 0]

SetEcn(h) == [h EXCEPT !.ip_ecn_flags = 1]

SetOptions(h) == [h EXCEPT !.header_length = 6]

SetMf(h) == [h EXCEPT !.mf = 1]

SetRf(h) == [h EXCEPT !.rf = 1]

SetVersion(h) == [h EXCEPT !.version = 5]

SetSrc(h) == [h EXCEPT !.src_addr = 9]

SetFlow(h) == [h EXCEPT !.flow_label2 = 6]

\* the IPv4 / TCP flow
FlowV4 ==
    {PktV4(id, t, 50) : id \in {1, 2}, t \in TcpVariants}
    \cup {PktV4(id, Tcp0, 50) : id \in {0, 3, 256}}
    \cup {WithOuter(PktV4(2, Tcp0, 50), SetTtl),
          WithOuter(PktV4(2, Tcp0, 50), SetDf),
          WithOuter(PktV4(2, Tcp0, 50), SetEcn)}
    \cup {PktV4(2, Tcp0, len) : len \in {20, 30}}

\* the IPv6 / TCP flow
FlowV6 ==
    {PktV6(Tcp0, 70),
     PktV6([Tcp0 EXCEPT !.seq_number = ntohl(U32(1010))], 70),
     WithOuter(PktV6(Tcp0, 70), SetTtl)}

\* the tunnelled flow
FlowTunnel ==
    {PktTunnel(1, 2, Tcp0, 70),
     PktTunnel(1, 2, [Tcp0 EXCEPT !.seq_number = ntohl(U32(1010))], 70),
     WithOuter(PktTunnel(1, 2, Tcp0, 70), SetTtl),
     PktTunnel(1, 2, Tcp0, 30)}

\* a flow whose IP chain ends in UDP: the UDP header and the first payload
\* bytes are what the code reads as a tcphdr_t
FlowUdp == {Packet(<<IPv4Hdr("UDP", 1, 50)>>, Tcp0, 50)}

\* IPv6 packets with one recognised extension header
FlowV6Ext == {PktV6Ext(ext, Tcp0, 78) : ext \in {"HOPOPTS", "AH"}}

\* packets of no flow above: other address, port, flow label or shape
Strangers ==
    {WithOuter(PktV4(2, Tcp0, 50), SetSrc),
     PktV4(2, [Tcp0 EXCEPT !.dst_port = ntohs(201)], 50),
     WithOuter(PktV6(Tcp0, 70), SetFlow),
     WithOuter(PktV4(2, Tcp0, 50), SetOptions),
     WithOuter(PktV4(2, Tcp0, 50), SetMf),
     WithOuter(PktV4(2, Tcp0, 50), SetRf),
     WithOuter(PktV4(2, Tcp0, 50), SetVersion),
     WithOuter(PktTunnel(1, 2, Tcp0, 70), SetMf)}

\* every packet the framework may hand to the profile
Packets ==
    FlowV4 \cup FlowV6 \cup FlowTunnel \cup FlowUdp \cup FlowV6Ext
    \cup Strangers

\* what the framework's random_cb may return in its low 16 bits
MsnSeeds == {5, 65534}

\* the context identifiers the framework may give the context
CidValues == {0, 3}

\* the sizes of the output buffer a caller may pass
DestSizes == {8, 256}

(***************************************************************************)
(* State.                                                                  *)
(***************************************************************************)
VARIABLES
    pc,           \* where the profile stands: "none" (no context),
                  \* "create_option_loop" (inside c_tcp_create),
                  \* "created" (context built, first packet not yet encoded),
                  \* "ready", "encode_option_loop" (inside c_tcp_encode),
                  \* "aborted" (an assert() stopped the program)
    state,        \* context->state: "IR", "FO" or "SO"
    cid,          \* context->cid
    ip_context,   \* tcp_context->ip_context[]: one record per IP header
    tcp_context,  \* the scalar fields of struct sc_tcp_context
    msn_seed,     \* the MSN c_tcp_create drew from random_cb
    loop_iter,    \* iterations of the loop c_tcp_create stands in, modulo 2
    op,           \* the last operation called
    ret,          \* what it returned
    pkt,          \* the packet it was given
    dest_size,    \* the dest_size the last c_tcp_encode was given
    rohc,         \* what the last c_tcp_encode wrote to dest
    memory        \* the bytes the program reads without having written
                  \* them: what malloc left in the field
                  \* tcp_options_free_offset of the context, and the byte
                  \* behind the 16 entries of tcp_options_index[]

vars ==
    <<pc, state, cid, ip_context, tcp_context, msn_seed, loop_iter, op, ret,
      pkt, dest_size, rohc, memory>>

\* no ROHC packet written; packet_type is what the call stored through its
\* packet_type argument, "unwritten" when it stored nothing; options are
\* the XI items of the list of TCP options (the index and the bit 0x80),
\* option_values the bytes of the compressed values after them; irregular
\* and irregular_tcp are the fields of the irregular chain, each the
\* sequence of the values written for it; ip_id_behavior is the set of
\* the values assigned to an ip_id_behavior field of the packet, in the
\* dynamic parts of its IPv4 headers or in co_common; payload_size is the
\* number of
\* bytes of the packet behind its TCP header of 20 bytes, which the call
\* computes before it scales the sequence number
NoRohc ==
    [type |-> "none", format |-> "none", static_chain |-> FALSE,
     dynamic_chain |-> FALSE, len |-> 0, packet_type |-> "unwritten",
     ttl_hopl_outer_flag |-> 0, irregular |-> <<>>,
     irregular_tcp |-> [ecn_res |-> <<>>, checksum |-> <<>>],
     list_present |-> 0, options |-> <<>>, option_values |-> <<>>,
     ip_id_behavior |-> {}, payload_size |-> 0]

\* struct sc_tcp_context before c_tcp_create filled it.  No function sets
\* tcp_options_free_offset before it adds to it: the field counts from the
\* value malloc left in it.
NoTcpContext ==
    [msn |-> 0, old_tcphdr |-> Tcp0, seq_number |-> U32(0),
     ack_number |-> U32(0), ecn_used |-> 0, seq_number_scaled |-> U32(0),
     seq_number_residue |-> U32(0), ack_number_scaled |-> U32(0),
     ack_number_residue |-> U32(0), ack_stride |-> 0,
     tcp_last_seq_number |-> 0, tcp_seq_number_change_count |-> 0,
     tcp_options_list |-> [i \in 0..(MAX_TCP_OPTION_INDEX - 1) |-> 0],
     tcp_options_offset |-> [i \in 0..(MAX_TCP_OPTION_INDEX - 1) |-> 0],
     tcp_options_free_offset |-> 0,
     tcp_options_values |-> <<>>,
     tcp_option_timestamp |-> <<U32(0), U32(0)>>]

\* the state after construction: the framework holds no context of the
\* flow; the memory holds zero bytes where the program reads before it
\* writes
Init ==
    /\ pc = "none"
    /\ state = "IR"
    /\ cid = 0
    /\ ip_context = <<>>
    /\ tcp_context = NoTcpContext
    /\ msn_seed = 0
    /\ loop_iter = 0
    /\ op = "none"
    /\ ret = 0
    /\ pkt = Packet(<<>>, Tcp0, 0)
    /\ dest_size = 0
    /\ rohc = NoRohc
    /\ memory = [tcp_options_free_offset |-> 0, tcp_options_index |-> 0]

(***************************************************************************)
(* c_tcp_create                                                            *)
(***************************************************************************)
\* the header the base_header pointer stands on after k - 1 headers; past
\* the IP chain it stands on the transport header, whose first byte is the
\* high byte of the source port
base_header(p, k) ==
    IF k <= Len(p.ip)
    THEN p.ip[k]
    ELSE [IPv4Hdr("NONE", 0, 0) EXCEPT
             !.version = ntohs(p.tcp.src_port) \div 4096]

\* sizeof(ip_ah_opt_t) - sizeof(uint32_t) + (length << 4) - sizeof(int32_t)
SizeofAhOpt == 16

\* the size_option the first loop of c_tcp_create computes for an extension
\* header of the given type; -1 where the switch returns
size_option(protocol, opt) ==
    CASE protocol \in {"HOPOPTS", "ROUTING", "DSTOPTS"} ->
             (opt.length + 1) * 8
      [] protocol = "GRE" -> (opt.c_flag + opt.k_flag + opt.s_flag + 1) * 8
      [] protocol = "MINE" -> (2 + opt.s_bit) * 8
      [] protocol = "AH" -> SizeofAhOpt - 4 + opt.length * 16 - 4
      [] OTHER -> -1

\* the extension headers of an IPv6 header from the j-th on: the protocol
\* after them and the bytes they take
RECURSIVE CreateWalkOptions(_, _, _, _)
CreateWalkOptions(h, j, protocol, size) ==
    IF ~IsIPv6Option(protocol) \/ j > Len(h.opts)
    THEN [ret |-> 1, protocol |-> protocol, size |-> size]
    ELSE IF size_option(protocol, h.opts[j]) < 0
         THEN [ret |-> -1, protocol |-> protocol, size |-> size]
         ELSE CreateWalkOptions(h, j + 1, h.opts[j].next_header,
                                size + size_option(protocol, h.opts[j]))

\* the first loop of c_tcp_create from the k-th header on: -1 where it
\* returns, else the bytes the headers take
RECURSIVE CreateWalk(_, _, _)
CreateWalk(p, k, size) ==
    LET h == base_header(p, k)
        o == CreateWalkOptions(h, 1, h.protocol, size + SizeofIPv6Hdr)
    IN  CASE h.version = 4 ->
                 IF h.header_length # 5 THEN -1
                 ELSE IF h.mf # 0 \/ h.rf # 0 THEN -1
                 ELSE IF IsIPTunneling(h.protocol)
                         /\ size + SizeofIPv4Hdr < p.size
                      THEN CreateWalk(p, k + 1, size + SizeofIPv4Hdr)
                      ELSE size + SizeofIPv4Hdr
          [] h.version = 6 ->
                 IF o.ret < 0 THEN -1
                 ELSE IF IsIPTunneling(o.protocol) /\ o.size < p.size
                      THEN CreateWalk(p, k + 1, o.size)
                      ELSE o.size
          [] OTHER -> -1

\* whether c_tcp_create leaves its first loop and the size test behind
CreateAccepts(p) ==
    /\ CreateWalk(p, 1, 0) >= 0
    /\ CreateWalk(p, 1, 0) < p.size

\* the record the second loop of c_tcp_create writes for one IP header
CreateIpContext(h) ==
    IF h.version = 4
    THEN [version |-> 4, last_ip_id |-> ntohs(h.ip_id),
          ip_id_behavior |-> IP_ID_BEHAVIOR_UNKNOWN,
          last_ip_id_behavior |-> 0, protocol |-> h.protocol,
          dscp |-> h.dscp, df |-> h.df, ttl_hopl |-> h.ttl_hopl,
          src_addr |-> h.src_addr, dst_addr |-> h.dest_addr,
          flow_label1 |-> 0, flow_label2 |-> 0]
    ELSE [version |-> 6, last_ip_id |-> 0,
          ip_id_behavior |-> IP_ID_BEHAVIOR_RANDOM,
          last_ip_id_behavior |-> 0, protocol |-> h.protocol,
          dscp |-> h.dscp, df |-> 0, ttl_hopl |-> h.ttl_hopl,
          src_addr |-> h.src_addr, dst_addr |-> h.dest_addr,
          flow_label1 |-> h.flow_label1, flow_label2 |-> h.flow_label2]

\* the second loop of c_tcp_create from the k-th header on: the records it
\* has written when it leaves the loop (done) or when it enters the loop
\* over the extension headers of an IPv6 header
RECURSIVE CreateChain(_, _, _)
CreateChain(p, k, built) ==
    LET h == base_header(p, k)
        chain == Append(built, CreateIpContext(h))
    IN  IF h.version = 6 /\ IsIPv6Option(h.protocol)
        THEN [done |-> FALSE, chain |-> chain]
        ELSE IF IsIPTunneling(h.protocol)
             THEN CreateChain(p, k + 1, chain)
             ELSE [done |-> TRUE, chain |-> chain]

\* the header the tcp pointer of c_tcp_create stands on: the one after the
\* headers of the first loop
CreateTcp(p) == p.tcp

\* struct sc_tcp_context as c_tcp_create leaves it
CreateTcpContext(p, seed) ==
    [NoTcpContext EXCEPT
        !.tcp_seq_number_change_count = 0,
        !.tcp_last_seq_number = -1,
        !.old_tcphdr = CreateTcp(p),
        !.seq_number = ntohl(CreateTcp(p).seq_number),
        !.ack_number = ntohl(CreateTcp(p).ack_number),
        !.msn = seed % Pow16,
        !.ack_stride = 0,
        !.tcp_options_free_offset = memory.tcp_options_free_offset,
        !.tcp_options_list = [i \in 0..(MAX_TCP_OPTION_INDEX - 1) |-> 255]]

\* the framework calls c_tcp_create when it holds no context
CreateCalled == pc = "none"

\* c_generic_create fails: quit, return 0
CreateGenericFails(p) ==
    /\ CreateCalled
    /\ op' = "create" /\ pkt' = p /\ ret' = 0
    /\ UNCHANGED <<memory, pc, state, cid, ip_context, tcp_context, msn_seed,
                   loop_iter, dest_size, rohc>>

\* the first loop or the size test returns -1
CreateRejects(p) ==
    /\ CreateCalled
    /\ ~CreateAccepts(p)
    /\ op' = "create" /\ pkt' = p /\ ret' = -1
    /\ UNCHANGED <<memory, pc, state, cid, ip_context, tcp_context, msn_seed,
                   loop_iter, dest_size, rohc>>

\* malloc returns NULL: clean, return 0
CreateNoMemory(p) ==
    /\ CreateCalled
    /\ CreateAccepts(p)
    /\ op' = "create" /\ pkt' = p /\ ret' = 0
    /\ UNCHANGED <<memory, pc, state, cid, ip_context, tcp_context, msn_seed,
                   loop_iter, dest_size, rohc>>

\* both loops run to their end: return 1
CreateSucceeds(p, id, seed) ==
    /\ CreateCalled
    /\ CreateAccepts(p)
    /\ CreateChain(p, 1, <<>>).done
    /\ pc' = "created"
    /\ state' = "IR"
    /\ cid' = id
    /\ ip_context' = CreateChain(p, 1, <<>>).chain
    /\ tcp_context' = CreateTcpContext(p, seed)
    /\ msn_seed' = seed % Pow16
    /\ op' = "create" /\ pkt' = p /\ ret' = 1
    /\ UNCHANGED <<memory, loop_iter, dest_size, rohc>>

\* the second loop reaches an IPv6 header followed by an extension header
CreateEntersOptionLoop(p, id) ==
    /\ CreateCalled
    /\ CreateAccepts(p)
    /\ ~CreateChain(p, 1, <<>>).done
    /\ pc' = "create_option_loop"
    /\ cid' = id
    /\ ip_context' = CreateChain(p, 1, <<>>).chain
    /\ op' = "create" /\ pkt' = p
    /\ loop_iter' = 0
    /\ UNCHANGED <<memory, state, tcp_context, msn_seed, ret, dest_size, rohc>>

\* one iteration of while(ipproto_specifications[protocol] & IPV6_OPTION) in
\* the second loop: the body copies the extension header the pointer stands
\* on into the record the context pointer stands on; it assigns neither
\* protocol nor a pointer, so the condition it is entered on still holds
CreateOptionLoop ==
    /\ pc = "create_option_loop"
    /\ IsIPv6Option(ip_context[Len(ip_context)].protocol)
    /\ size_option(ip_context[Len(ip_context)].protocol,
                   pkt.ip[Len(ip_context)].opts[1]) >= 0
    /\ loop_iter' = (loop_iter + 1) % 2
    /\ UNCHANGED <<memory, pc, state, cid, ip_context, tcp_context,
                   msn_seed, op,
                   ret, pkt, dest_size, rohc>>

Create ==
    \E p \in Packets :
        \/ CreateGenericFails(p)
        \/ CreateRejects(p)
        \/ CreateNoMemory(p)
        \/ \E id \in CidValues :
              \/ \E seed \in MsnSeeds : CreateSucceeds(p, id, seed)
              \/ CreateEntersOptionLoop(p, id)

(***************************************************************************)
(* c_tcp_check_context                                                     *)
(***************************************************************************)
\* ip_context.vx->version at the k-th record; the record after the last
\* header holds version 0
ContextVersion(k) ==
    IF k <= Len(ip_context) THEN ip_context[k].version ELSE 0

\* the source and destination port the code reads when the tcp pointer
\* stands on an IP header: its first four bytes
HeaderAsPorts(h) ==
    IF h.version = 4
    THEN [src_port |-> (h.version * 16 + h.header_length)
                       + 256 * (h.dscp * 4 + h.ip_ecn_flags),
          dst_port |-> h.length]
    ELSE [src_port |-> (h.version * 16 + h.dscp \div 4)
                       + 256 * ((h.dscp % 4) * 64 + h.ip_ecn_flags * 16
                                + h.flow_label1),
          dst_port |-> h.flow_label2]

\* the ports under the tcp pointer after k headers
PortsAfter(p, k) ==
    IF k >= Len(p.ip)
    THEN [src_port |-> p.tcp.src_port, dst_port |-> p.tcp.dst_port]
    ELSE HeaderAsPorts(p.ip[k + 1])

\* a test that accepts IPv4 options and fragments
CheckIPv4ShapeAny(h) == TRUE

\* whether the IPv4 header carries no option and no fragment bit
CheckIPv4Shape(h) == h.header_length = 5 /\ h.mf = 0 /\ h.rf = 0

\* the loop of c_tcp_check_context from the k-th header on, size bytes of
\* the packet left: what the function returns
RECURSIVE CheckWalk(_, _, _)
CheckWalk(p, k, size) ==
    LET h == base_header(p, k)
        c == ip_context[k]
        left == size - (IF h.version = 4 THEN SizeofIPv4Hdr
                                          ELSE SizeofIPv6Hdr)
        ports == PortsAfter(p, k)
    IN  IF h.version # ContextVersion(k) THEN 0
        ELSE IF h.version \notin {4, 6} THEN -1
        ELSE IF h.version = 4 /\ ~CheckIPv4Shape(h) THEN 0
        ELSE IF h.src_addr # c.src_addr \/ h.dest_addr # c.dst_addr THEN 0
        ELSE IF h.version = 6
                /\ (h.flow_label1 # c.flow_label1
                    \/ h.flow_label2 # c.flow_label2) THEN 0
        ELSE IF h.protocol # c.protocol THEN 0
        ELSE IF IsIPTunneling(h.protocol)
                /\ (left < 0 \/ left >= SizeofTcpHdr)
             THEN CheckWalk(p, k + 1, left)
             ELSE IF tcp_context.old_tcphdr.src_port = ports.src_port
                     /\ tcp_context.old_tcphdr.dst_port = ports.dst_port
                  THEN 1 ELSE 0

\* c_tcp_check_context on packet p
c_tcp_check_context(p) == CheckWalk(p, 1, p.size)

\* the framework asks whether the packet it received belongs to the context
CheckContext(p) ==
    /\ pc = "ready"
    /\ op # "check"
    /\ op' = "check" /\ pkt' = p /\ ret' = c_tcp_check_context(p)
    /\ UNCHANGED <<memory, pc, state, cid, ip_context, tcp_context, msn_seed,
                   loop_iter, dest_size, rohc>>

(***************************************************************************)
(* c_tcp_encode: the walk to the TCP header, the scaled fields, the state  *)
(* switch and the IP-ID behaviour of the innermost IPv4 header.            *)
(***************************************************************************)
\* a | b on two-bit values
BitOr2(a, b) ==
    (IF a % 2 = 1 \/ b % 2 = 1 THEN 1 ELSE 0)
    + 2 * (IF a \div 2 = 1 \/ b \div 2 = 1 THEN 1 ELSE 0)

\* the first loop of c_tcp_encode from the k-th header on: -1 where it
\* returns, else the innermost header, the bytes of the IP headers and the
\* ECN flags or-ed so far
RECURSIVE EncodeWalk(_, _, _, _)
EncodeWalk(p, k, size, ecn) ==
    LET h == base_header(p, k)
        size2 == size + (IF h.version = 4 THEN SizeofIPv4Hdr
                                           ELSE SizeofIPv6Hdr)
        ecn2 == BitOr2(ecn, h.ip_ecn_flags)
    IN  IF h.version \notin {4, 6}
        THEN [ret |-> -1, inner |-> k, size |-> size, ecn_used |-> ecn]
        ELSE IF h.protocol # "TCP" /\ size2 < p.size
             THEN EncodeWalk(p, k + 1, size2, ecn2)
             ELSE [ret |-> 0, inner |-> k, size |-> size2, ecn_used |-> ecn2]

\* c_field_scaling(scaled, residue, factor, value) on uint32_t: with a
\* factor of 0 the residue is the value; the int factor is converted to
\* uint32_t, so a negative one is 2^32 + factor
c_field_scaling(factor, value) ==
    IF factor = 0
    THEN [scaled |-> U32(0), residue |-> value]
    ELSE IF factor > 0
    THEN [scaled |-> <<value[1] \div factor,
                       ((value[1] % factor) * Pow16 + value[2]) \div factor>>,
          residue |-> U32(((value[1] % factor) * Pow16 + value[2]) % factor)]
    ELSE IF value[1] = Pow16 - 1 /\ value[2] >= Pow16 + factor
         THEN [scaled |-> U32(1),
               residue |-> U32(value[2] - (Pow16 + factor))]
         ELSE [scaled |-> U32(0), residue |-> value]

\* a switch that leaves the IR state for SO at once
NextStateSkipsFO(s) == "SO"

\* the switch on context->state: the state the call leaves
NextState(s) ==
    CASE s = "IR" -> "FO"
      [] s = "FO" -> "SO"
      [] OTHER -> s

\* the switch on context->state: the packet the call builds
PacketId(s) ==
    CASE s = "IR" -> "IR"
      [] s = "FO" -> "IR_DYN"
      [] OTHER -> "CO"

\* swapped_ip_id + 1 as an int, which does not wrap
SwappedPlusOneNoWrap(last) == swab16(last) + 1

\* swapped_ip_id built from the bytes of last_ip_id, then ++ on its uint16
SwappedPlusOne(last) == (swab16(last) + 1) % Pow16

\* the switch on ip_id_behavior of the innermost IPv4 header: the behaviour
\* it leaves, given last_ip_id and the IP-ID of the packet in host order;
\* last + 1 is an int and does not wrap
NextIpIdBehavior(behavior, last, id) ==
    CASE behavior = IP_ID_BEHAVIOR_SEQUENTIAL ->
             IF last + 1 # id THEN IP_ID_BEHAVIOR_RANDOM ELSE behavior
      [] behavior = IP_ID_BEHAVIOR_SEQUENTIAL_SWAPPED ->
             IF SwappedPlusOne(last) # swab16(id)
             THEN IP_ID_BEHAVIOR_RANDOM ELSE behavior
      [] behavior = IP_ID_BEHAVIOR_RANDOM ->
             IF last + 1 = id THEN IP_ID_BEHAVIOR_SEQUENTIAL
             ELSE IF SwappedPlusOne(last) = swab16(id)
                  THEN IP_ID_BEHAVIOR_SEQUENTIAL_SWAPPED
             ELSE IF id = 0 THEN IP_ID_BEHAVIOR_ZERO
             ELSE behavior
      [] behavior = IP_ID_BEHAVIOR_ZERO ->
             IF id = 0 THEN behavior
             ELSE IF id = 1 THEN IP_ID_BEHAVIOR_SEQUENTIAL
             ELSE IF id = 256 THEN IP_ID_BEHAVIOR_SEQUENTIAL_SWAPPED
             ELSE IP_ID_BEHAVIOR_RANDOM
      [] behavior = IP_ID_BEHAVIOR_UNKNOWN ->
             IF id = 0 THEN IP_ID_BEHAVIOR_ZERO
             ELSE IF last + 1 = id THEN IP_ID_BEHAVIOR_SEQUENTIAL
             ELSE IF last = id THEN behavior
             ELSE IF last + 1 = swab16(id)
                  THEN IP_ID_BEHAVIOR_SEQUENTIAL_SWAPPED
             ELSE IF last = swab16(id) THEN behavior
             ELSE IP_ID_BEHAVIOR_RANDOM
      [] OTHER -> behavior

\* ip_context after the classification of the innermost header
ClassifyInner(ipc, p, inner) ==
    IF p.ip[inner].version = 4
    THEN [ipc EXCEPT ![inner].ip_id_behavior =
             NextIpIdBehavior(ipc[inner].ip_id_behavior,
                              ipc[inner].last_ip_id,
                              ntohs(p.ip[inner].ip_id))]
    ELSE ipc

(***************************************************************************)
(* c_tcp_encode: the IR and IR-DYN packets.                                *)
(***************************************************************************)
\* code_cid_values() with small CIDs: the index after the CID and type bytes
CidCounter(id) == IF id = 0 THEN 1 ELSE 2

SizeofIPv4Static == 10

SizeofIPv6Static1 == 34

SizeofIPv6Static2 == 36

SizeofTcpStatic == 4

SizeofIPv4Dynamic1 == 3

SizeofIPv4Dynamic2 == 5

SizeofIPv6Dynamic == 2

SizeofTcpDynamic == 8

\* tcp_code_static_ip_part: the bytes it writes for one header
StaticIpLength(h) ==
    IF h.version = 4 THEN SizeofIPv4Static
    ELSE IF h.flow_label1 = 0 /\ h.flow_label2 = 0 THEN SizeofIPv6Static1
    ELSE SizeofIPv6Static2

\* the static chain: the IP headers up to the first that carries no IP
\* header, then tcp_code_static_tcp_part
RECURSIVE StaticChainLength(_, _)
StaticChainLength(p, k) ==
    StaticIpLength(p.ip[k])
    + (IF IsIPTunneling(p.ip[k].protocol)
       THEN StaticChainLength(p, k + 1) ELSE SizeofTcpStatic)

\* tcp_code_dynamic_ip_part: the ip_id_behavior it writes for an IPv4 header
DynamicIpIdBehavior(c, h, is_innermost) ==
    IF h.ip_id = 0 THEN IP_ID_BEHAVIOR_ZERO
    ELSE IF ~is_innermost THEN IP_ID_BEHAVIOR_RANDOM
    ELSE IF c.ip_id_behavior = IP_ID_BEHAVIOR_UNKNOWN
         THEN IP_ID_BEHAVIOR_RANDOM
         ELSE c.ip_id_behavior

\* tcp_code_dynamic_ip_part: the bytes it writes for one header
DynamicIpLength(c, h, is_innermost) ==
    IF h.version = 4
    THEN IF DynamicIpIdBehavior(c, h, is_innermost) = IP_ID_BEHAVIOR_ZERO
         THEN SizeofIPv4Dynamic1 ELSE SizeofIPv4Dynamic2
    ELSE SizeofIPv6Dynamic

\* tcp_code_dynamic_ip_part: the context record it leaves
DynamicIpContext(c, h, is_innermost) ==
    IF h.version = 4
    THEN LET behavior == IF is_innermost THEN c.ip_id_behavior
                         ELSE DynamicIpIdBehavior(c, h, is_innermost)
         IN  [c EXCEPT !.ip_id_behavior = behavior,
                       !.last_ip_id_behavior = behavior,
                       !.dscp = h.dscp, !.ttl_hopl = h.ttl_hopl,
                       !.df = h.df, !.last_ip_id = ntohs(h.ip_id)]
    ELSE [c EXCEPT !.dscp = h.dscp, !.ttl_hopl = h.ttl_hopl]

\* the dynamic chain of the IP headers from the k-th on: the bytes written
\* and the context records left
RECURSIVE DynamicChain(_, _, _, _, _)
DynamicChain(p, ipc, inner, k, len) ==
    LET h == p.ip[k]
        ipc2 == [ipc EXCEPT ![k] = DynamicIpContext(ipc[k], h, k = inner)]
        len2 == len + DynamicIpLength(ipc[k], h, k = inner)
    IN  IF IsIPTunneling(h.protocol)
        THEN DynamicChain(p, ipc2, inner, k + 1, len2)
        ELSE [ip_context |-> ipc2, len |-> len2]

\* for(index = TCP_INDEX_SACK + 1; ...): the first free index of the
\* table, MAX_TCP_OPTION_INDEX if there is none
FreeIndex(list) ==
    LET free == {i \in (TCP_INDEX_SACK + 1)..(MAX_TCP_OPTION_INDEX - 1) :
                    list[i] = 255}
    IN  IF free = {} THEN MAX_TCP_OPTION_INDEX
        ELSE CHOOSE i \in free : \A j \in free : i <= j

\* the bytes of an option in the packet; WordBytes(w) are the bytes of a
\* 32-bit word from its address on
OptionBytes(o) ==
    LET WordBytes(w) ==
            <<w[2] % 256, w[2] \div 256, w[1] % 256, w[1] \div 256>>
    IN  IF o.kind \in {TCP_OPT_EOL, TCP_OPT_NOP} THEN <<o.kind>>
        ELSE <<o.kind, o.len>>
             \o (IF o.kind = TCP_OPT_TIMESTAMP
                 THEN WordBytes(o.value[1]) \o WordBytes(o.value[2])
                 ELSE o.value)

\* ((unsigned char *) tcp) + sizeof(tcphdr_t): the bytes of the options
\* from the k-th on
RECURSIVE OptionsArea(_, _)
OptionsArea(options, k) ==
    IF k > Len(options) THEN <<>>
    ELSE OptionBytes(options[k]) \o OptionsArea(options, k + 1)

\* *options with the pointer at position pos; the payload that follows the
\* options is made of zero bytes
OptByte(area, pos) == IF pos <= Len(area) THEN area[pos] ELSE 0

\* the n bytes from position pos on
OptSlice(area, pos, n) == [j \in 1..n |-> OptByte(area, pos + j - 1)]

\* the eight bytes at options + 2 as tcp_option_timestamp keeps them;
\* BytesWord(b) is the 32-bit word read at the address of four bytes
OptTimestamp(area, pos) ==
    LET BytesWord(b) == <<b[4] * 256 + b[3], b[2] * 256 + b[1]>>
    IN  <<BytesWord(OptSlice(area, pos + 2, 4)),
          BytesWord(OptSlice(area, pos + 6, 4))>>

\* tcp_options_index[*options]; the table has 16 entries, a kind above 15
\* reads the byte the memory holds behind it
OptionIndex(kind) ==
    IF kind < 16 THEN tcp_options_index[kind + 1]
    ELSE memory.tcp_options_index

\* the index is used now, the value is saved at the first free offset and
\* the first free offset is updated
StoreOption(tc, index, area, pos) ==
    LET n == (OptByte(area, pos + 1) - 2) % 256
    IN  [tc EXCEPT !.tcp_options_list[index] = OptByte(area, pos),
                   !.tcp_options_offset[index] = tc.tcp_options_free_offset,
                   !.tcp_options_values =
                       (tc.tcp_options_free_offset
                            :> OptSlice(area, pos + 2, n)) @@ @,
                   !.tcp_options_free_offset = @ + 1 + n]

\* same length and same value as the ones saved for the index
SameStoredValue(tc, index, area, pos) ==
    LET value == tc.tcp_options_values[tc.tcp_options_offset[index]]
    IN  /\ Len(value) + 2 = OptByte(area, pos + 1)
        /\ value = OptSlice(area, pos + 2, Len(value))

\* compare_value == 0 for a TIMESTAMP option or one without a field of its
\* own in the context
SameOptionValue(tc, index, area, pos) ==
    CASE OptByte(area, pos) = TCP_OPT_TIMESTAMP ->
             tc.tcp_option_timestamp = OptTimestamp(area, pos)
      [] OptByte(area, pos) > TCP_OPT_TIMESTAMP ->
             SameStoredValue(tc, index, area, pos)

\* one turn of the loop over the options in tcp_code_dynamic_tcp_part, with
\* the pointer on an EOL, NOP or TIMESTAMP option or on one of a kind above
\* 8: the index of its XI item, the context and the place of the pointer it
\* leaves, and whether an assert() stops the program
DynamicOption(tc, area, pos, i) ==
    LET kind == OptByte(area, pos)
        index == OptionIndex(kind)
        free == FreeIndex(tc.tcp_options_list)
        never_used ==
            CASE kind \in {TCP_OPT_EOL, TCP_OPT_NOP} ->
                     [tc EXCEPT !.tcp_options_list[index] = kind]
              [] kind = TCP_OPT_TIMESTAMP ->
                     [tc EXCEPT !.tcp_options_list[index] = kind,
                                !.tcp_option_timestamp =
                                    OptTimestamp(area, pos)]
              [] kind > TCP_OPT_TIMESTAMP ->
                     StoreOption(tc, index, area, pos)
        used ==
            IF index <= TCP_INDEX_SACK \/ tc.tcp_options_list[index] = 255
            THEN [index |-> index, tcp_context |-> never_used]
            ELSE IF SameOptionValue(tc, index, area, pos)
            THEN [index |-> index, tcp_context |-> tc]
            ELSE IF free = MAX_TCP_OPTION_INDEX
            THEN [index |-> free, tcp_context |-> tc]
            ELSE [index |-> free,
                  tcp_context |-> StoreOption(tc, free, area, pos)]
        next ==
            CASE kind = TCP_OPT_EOL -> [i |-> 0, pos |-> pos + 1]
              [] kind = TCP_OPT_NOP -> [i |-> i - 1, pos |-> pos + 1]
              [] kind = TCP_OPT_TIMESTAMP ->
                     [i |-> i - TCP_OLEN_TIMESTAMP,
                      pos |-> pos + TCP_OLEN_TIMESTAMP]
              [] kind > 15 -> [i |-> i, pos |-> pos]
              [] kind \in 9..15 ->
                     [i |-> i - OptByte(area, pos + 1),
                      pos |-> pos + OptByte(area, pos + 1)]
    IN  With(used,
             LAMBDA u :
                 [index |-> u.index, tcp_context |-> u.tcp_context,
                  i |-> next.i, pos |-> next.pos,
                  aborts |->
                      /\ u.tcp_context.tcp_options_free_offset
                             # tc.tcp_options_free_offset
                      /\ u.tcp_context.tcp_options_free_offset
                             >= MAX_TCP_OPT_SIZE])

\* the loop over the options in tcp_code_dynamic_tcp_part with the pointer
\* at position pos and i bytes left: the XI items written, the bytes the
\* pointer has passed and the context left; aborts if an assert() stops the
\* program, loops if a turn leaves i, the pointer and the context as it
\* found them, so that every turn after it does the same
RECURSIVE DynamicOptions(_, _, _, _, _)
DynamicOptions(tc, area, pos, i, items) ==
    IF i <= 0
    THEN [tcp_context |-> tc, items |-> items, bytes |-> pos - 1,
          loops |-> FALSE, aborts |-> FALSE]
    ELSE With(DynamicOption(tc, area, pos, i),
              LAMBDA r :
                  IF r.aborts \/ (r.i = i /\ r.tcp_context = tc)
                  THEN [tcp_context |-> r.tcp_context, items |-> items,
                        bytes |-> pos - 1, loops |-> ~r.aborts,
                        aborts |-> r.aborts]
                  ELSE DynamicOptions(r.tcp_context, area, r.pos, r.i,
                                      Append(items, [index |-> r.index,
                                                     present |-> 1])))

\* the list of TCP options of the dynamic part: the list byte, the XI items
\* and the options as they are; a header without options (data_offset 5)
\* takes one byte
DynamicOptionsLength(tcp, opt) ==
    IF tcp.data_offset > 5 THEN 1 + Len(opt.items) + opt.bytes ELSE 1

\* tcp_code_dynamic_tcp_part: the bytes it writes
DynamicTcpLength(tc, tcp, opt) ==
    SizeofTcpDynamic
    + (IF tcp.ack_flag = 1 /\ tcp.ack_number # U32(0) THEN 4 ELSE 0)
    + 2 + 2
    + (IF tcp.urg_flag = 1 /\ tcp.urg_ptr # 0 THEN 2 ELSE 0)
    + (IF tc.ack_stride # 0 THEN 2 ELSE 0)
    + DynamicOptionsLength(tcp, opt)

\* tcp_code_dynamic_tcp_part: the XI items it writes and the context it
\* leaves; if(tcp->data_offset > 5) it goes through the options
DynamicTcpContext(tc, tcp) ==
    LET tc1 == [tc EXCEPT !.tcp_last_seq_number = ntohl(tcp.seq_number),
                          !.tcp_seq_number_change_count = @ + 1]
    IN  IF tcp.data_offset > 5
        THEN DynamicOptions(tc1, OptionsArea(tcp.options, 1), 1,
                            tcp.data_offset * 4 - SizeofTcpHdr, <<>>)
        ELSE [tcp_context |-> tc1, items |-> <<>>, bytes |-> 0,
              loops |-> FALSE, aborts |-> FALSE]

\* the else branch of if(packet_id == 0): the IR or IR-DYN packet
code_IR_packet(p, id, packet_id, ipc, tc, inner) ==
    LET static == IF packet_id = "IR" THEN StaticChainLength(p, 1) ELSE 0
        Built(dyn, opt, counter) ==
            [ret |-> counter,
             ip_context |-> dyn.ip_context,
             tcp_context |-> opt.tcp_context,
             loops |-> opt.loops, aborts |-> opt.aborts,
             rohc |-> [NoRohc EXCEPT
                          !.type = packet_id,
                          !.static_chain = packet_id = "IR",
                          !.dynamic_chain = TRUE, !.len = counter,
                          !.packet_type = "PACKET_IR",
                          !.ip_id_behavior =
                              {DynamicIpIdBehavior(ipc[k], p.ip[k],
                                                   k = inner) :
                                  k \in {j \in 1..inner :
                                             p.ip[j].version = 4}},
                          !.options = opt.items]]
        Options(dyn) ==
            With(DynamicTcpContext(tc, p.tcp),
                 LAMBDA opt :
                     With(CidCounter(id) + 2 + static + dyn.len
                          + DynamicTcpLength(tc, p.tcp, opt),
                          LAMBDA counter : Built(dyn, opt, counter)))
    IN  With(DynamicChain(p, ipc, inner, 1, 0), Options)

(***************************************************************************)
(* co_baseheader: the choice of the compressed header format.  c is the    *)
(* context record of the innermost IP header, h that header, old the       *)
(* old_tcphdr of the context, tcp the TCP header of the packet.            *)
(***************************************************************************)
\* (a & mask) == (b & mask) on host-order 32-bit values, mask = ~(2^k - 1)
\* with k <= 16
SameHighBits(a, b, k) ==
    a[1] = b[1] /\ a[2] \div (2 ^ k) = b[2] \div (2 ^ k)

\* (a & 0xFFF0) == (b & 0xFFF0)
SameFFF0(a, b) == a[2] \div 16 = b[2] \div 16

\* the comparison of last_ip_id with the IP-ID under the mask that leaves
\* out k bits: 0xFFF0, 0xFFE0, 0xFFF8, 0xFF80 for the sequential behaviour,
\* 0xF0FF, 0xE0FF, 0xF8FF, 0x80FF for the swapped one
IpIdSame(c, id, k) ==
    IF c.ip_id_behavior = IP_ID_BEHAVIOR_SEQUENTIAL
    THEN c.last_ip_id \div (2 ^ k) = id \div (2 ^ k)
    ELSE /\ c.last_ip_id % 256 = id % 256
         /\ c.last_ip_id \div (2 ^ (8 + k)) = id \div (2 ^ (8 + k))

\* the tests before the choice of a set of formats, without the one on
\* ttl_irregular_chain_flag
CommonTriggerNoTtl(c, old, h, tcp, ttl_irregular_chain_flag) ==
    \/ tcp.ack_flag # old.ack_flag
    \/ tcp.urg_flag # old.urg_flag
    \/ h.version = 4 /\ c.last_ip_id_behavior # c.ip_id_behavior
    \/ h.version = 4 /\ h.df # c.df
    \/ tcp.tcp_ecn_flags # old.tcp_ecn_flags
    \/ tcp.ack_flag # 0 /\ ntohl(tcp.ack_number)[1] # ntohl(old.ack_number)[1]
    \/ ntohl(tcp.seq_number)[1] # ntohl(old.seq_number)[1]
    \/ tcp.urg_flag # 0

\* the tests before the choice of a set of formats that end in code_common
CommonTrigger(c, old, h, tcp, ttl_irregular_chain_flag) ==
    \/ tcp.ack_flag # old.ack_flag
    \/ tcp.urg_flag # old.urg_flag
    \/ h.version = 4 /\ c.last_ip_id_behavior # c.ip_id_behavior
    \/ h.version = 4 /\ h.df # c.df
    \/ tcp.tcp_ecn_flags # old.tcp_ecn_flags
    \/ tcp.ack_flag # 0 /\ ntohl(tcp.ack_number)[1] # ntohl(old.ack_number)[1]
    \/ ntohl(tcp.seq_number)[1] # ntohl(old.seq_number)[1]
    \/ tcp.urg_flag # 0
    \/ ttl_irregular_chain_flag # 0

\* the test on last_ip_id_behavior is reached and stores ip_id_behavior
BehaviorStored(c, old, h, tcp) ==
    /\ tcp.ack_flag = old.ack_flag
    /\ tcp.urg_flag = old.urg_flag
    /\ h.version = 4
    /\ c.last_ip_id_behavior # c.ip_id_behavior

\* an ECN branch that always ends in code_common
FormatEcnCommon(c, old, tcp) == "co_common"

\* if(ecn_used != 0): seq_8, rnd_8 or co_common
FormatEcn(c, old, tcp) ==
    IF ~SameHighBits(ntohl(tcp.seq_number), ntohl(old.seq_number), 14)
    THEN "co_common"
    ELSE IF tcp.window # old.window THEN "co_common"
    ELSE IF c.ip_id_behavior <= IP_ID_BEHAVIOR_SEQUENTIAL_SWAPPED
         THEN "seq_8" ELSE "rnd_8"

\* the seq_X set with an ACK flag, no option, same rsf_flags, low word of
\* the sequence number and window
FormatSeqAck(c, tc, old, tcp, id, payload_size) ==
    LET seq == ntohl(tcp.seq_number)
        ack == ntohl(tcp.ack_number)
        old_seq == ntohl(old.seq_number)
        old_ack == ntohl(old.ack_number)
    IN  IF tcp.ack_number = old.ack_number
        THEN IF SameFFF0(ack, old_ack) /\ payload_size # 0
             THEN IF IpIdSame(c, id, 3) THEN "seq_4" ELSE "co_common"
             ELSE "seq_1"
        ELSE IF tcp.seq_number = old.seq_number
        THEN IF SameFFF0(ack, old_ack) /\ tc.ack_stride # 0
             THEN IF IpIdSame(c, id, 3) THEN "seq_4" ELSE "co_common"
             ELSE IF IpIdSame(c, id, 4) THEN "seq_3" ELSE "co_common"
        ELSE IF SameFFF0(seq, old_seq) /\ payload_size # 0
             THEN IF IpIdSame(c, id, 7) THEN "seq_6" ELSE "co_common"
             ELSE "seq_5"

\* the seq_X set without ACK flag
FormatSeqNoAck(c, old, tcp, id, payload_size) ==
    IF \/ tcp.seq_number = old.seq_number
       \/ SameFFF0(ntohl(tcp.seq_number), ntohl(old.seq_number))
    THEN IF payload_size # 0
         THEN IF IpIdSame(c, id, 7) THEN "seq_2" ELSE "co_common"
         ELSE IF IpIdSame(c, id, 4) THEN "seq_1" ELSE "co_common"
    ELSE "co_common"

\* the seq_X set of compressed header formats
FormatSeq(c, tc, old, tcp, id, payload_size) ==
    LET seq == ntohl(tcp.seq_number)
        old_seq == ntohl(old.seq_number)
    IN  IF tcp.data_offset > 5
        THEN IF /\ tcp.window = old.window
                /\ IpIdSame(c, id, 4)
                /\ SameHighBits(seq, old_seq, 14)
                /\ SameHighBits(ntohl(tcp.ack_number),
                                ntohl(old.ack_number), 15)
             THEN "seq_8" ELSE "co_common"
        ELSE IF tcp.rsf_flags # old.rsf_flags
        THEN IF /\ tcp.window = old.window
                /\ IpIdSame(c, id, 4)
                /\ SameHighBits(seq, old_seq, 14)
             THEN "seq_8" ELSE "co_common"
        ELSE IF seq[2] # old_seq[2] THEN "co_common"
        ELSE IF tcp.window # old.window
        THEN IF IpIdSame(c, id, 5) THEN "seq_7" ELSE "co_common"
        ELSE IF tcp.ack_flag # 0
        THEN FormatSeqAck(c, tc, old, tcp, id, payload_size)
        ELSE FormatSeqNoAck(c, old, tcp, id, payload_size)

\* the rnd_X set of compressed header formats
FormatRnd(tc, old, tcp, payload_size) ==
    LET seq == ntohl(tcp.seq_number)
        ack == ntohl(tcp.ack_number)
        old_seq == ntohl(old.seq_number)
        old_ack == ntohl(old.ack_number)
    IN  IF tcp.data_offset > 5
        THEN IF tcp.window # old.window THEN "co_common" ELSE "rnd_8"
        ELSE IF tcp.rsf_flags # old.rsf_flags
        THEN IF tcp.window = old.window THEN "rnd_8" ELSE "co_common"
        ELSE IF seq[2] # old_seq[2] THEN "co_common"
        ELSE IF tcp.window # old.window THEN "rnd_7"
        ELSE IF tcp.ack_flag # 0
        THEN IF tcp.ack_number = old.ack_number
             THEN IF SameFFF0(ack, old_ack) /\ payload_size # 0
                  THEN "rnd_4" ELSE "rnd_1"
             ELSE IF tcp.seq_number = old.seq_number
             THEN IF SameFFF0(ack, old_ack) /\ tc.ack_stride # 0
                  THEN "rnd_4" ELSE "rnd_3"
             ELSE IF SameFFF0(seq, old_seq) /\ payload_size # 0
                  THEN "rnd_6" ELSE "rnd_5"
        ELSE IF \/ tcp.seq_number = old.seq_number
                \/ SameFFF0(seq, old_seq)
             THEN IF payload_size # 0 THEN "rnd_2" ELSE "rnd_1"
             ELSE "co_common"

\* a choice that takes the seq_X set for the random behaviour too
co_formatSeqForRandom(c, tc, h, tcp, payload_size, ttl_irregular_chain_flag) ==
    LET old == tc.old_tcphdr
        id == IF h.version = 4 THEN ntohs(h.ip_id) ELSE 0
    IN  IF CommonTrigger(c, old, h, tcp, ttl_irregular_chain_flag)
        THEN "co_common"
        ELSE IF tc.ecn_used # 0 THEN FormatEcn(c, old, tcp)
        ELSE IF c.ip_id_behavior <= IP_ID_BEHAVIOR_RANDOM
        THEN FormatSeq(c, tc, old, tcp, id, payload_size)
        ELSE FormatRnd(tc, old, tcp, payload_size)

\* the format co_baseheader builds
co_format(c, tc, h, tcp, payload_size, ttl_irregular_chain_flag) ==
    LET old == tc.old_tcphdr
        id == IF h.version = 4 THEN ntohs(h.ip_id) ELSE 0
    IN  IF CommonTrigger(c, old, h, tcp, ttl_irregular_chain_flag)
        THEN "co_common"
        ELSE IF tc.ecn_used # 0 THEN FormatEcn(c, old, tcp)
        ELSE IF c.ip_id_behavior <= IP_ID_BEHAVIOR_SEQUENTIAL_SWAPPED
        THEN FormatSeq(c, tc, old, tcp, id, payload_size)
        ELSE FormatRnd(tc, old, tcp, payload_size)

(***************************************************************************)
(* co_baseheader: the bytes of the compressed header and the context it    *)
(* leaves; code_CO_packet.                                                 *)
(***************************************************************************)
SizeofCoCommon == 5

\* sizeof the rnd_X_t and seq_X_t structures, from the table of the bits of
\* each format
FormatLength(format) ==
    CASE format = "rnd_1" -> 4 [] format = "rnd_2" -> 2
      [] format = "rnd_3" -> 3 [] format = "rnd_4" -> 2
      [] format = "rnd_5" -> 5 [] format = "rnd_6" -> 4
      [] format = "rnd_7" -> 6 [] format = "rnd_8" -> 7
      [] format = "seq_1" -> 4 [] format = "seq_2" -> 3
      [] format = "seq_3" -> 4 [] format = "seq_4" -> 2
      [] format = "seq_5" -> 6 [] format = "seq_6" -> 5
      [] format = "seq_7" -> 6 [] format = "seq_8" -> 7

\* variable_length_32_enc: no byte for the value of old_tcphdr, else the
\* smallest of 1, 2 and 4 bytes that holds what changed
variable_length_32_enc(old, value) ==
    LET a == ntohl(old)
        b == ntohl(value)
    IN  IF a = b THEN 0
        ELSE IF a[1] = b[1] /\ a[2] \div 256 = b[2] \div 256 THEN 1
        ELSE IF a[1] = b[1] THEN 2
        ELSE 4

\* c_static_or_irreg16: no byte if the value is the stored one, else two
c_static_or_irreg16(stored, value) == IF stored = value THEN 0 ELSE 2

\* c_static_or_irreg8, dscp_encode: no byte if the value is the stored one
c_static_or_irreg8(stored, value) == IF stored = value THEN 0 ELSE 1

\* c_optional_ip_id_lsb: nothing for a random or zero IP-ID, else one byte
\* if the 8 low bits are enough and two if not
c_optional_ip_id_lsb(behavior, last, id) ==
    IF behavior > IP_ID_BEHAVIOR_SEQUENTIAL_SWAPPED THEN 0
    ELSE IF behavior = IP_ID_BEHAVIOR_SEQUENTIAL
         THEN IF last \div 256 = id \div 256 THEN 1 ELSE 2
         ELSE IF last % 256 = id % 256 THEN 1 ELSE 2

\* code_common: the bytes of the co_common header
CoCommonLength(c, tc, h, tcp) ==
    SizeofCoCommon
    + variable_length_32_enc(tc.old_tcphdr.seq_number, tcp.seq_number)
    + variable_length_32_enc(tc.old_tcphdr.ack_number, tcp.ack_number)
    + c_static_or_irreg16(tc.ack_stride, swab16(tc.ack_stride))
    + c_static_or_irreg16(tc.old_tcphdr.window, tcp.window)
    + (IF h.version = 4
       THEN c_optional_ip_id_lsb(c.ip_id_behavior, c.last_ip_id,
                                 ntohs(h.ip_id))
       ELSE 0)
    + c_static_or_irreg8(c.dscp, h.dscp)
    + c_static_or_irreg8(c.ttl_hopl, h.ttl_hopl)
    + (IF tcp.urg_flag # 0
       THEN c_static_or_irreg16(tc.old_tcphdr.urg_ptr, tcp.urg_ptr) ELSE 0)

\* the bytes co_baseheader writes for a header without TCP options
CoBaseLength(format, c, tc, h, tcp) ==
    IF format = "co_common" THEN CoCommonLength(c, tc, h, tcp)
    ELSE FormatLength(format)

\* the context record of the innermost IP header co_baseheader leaves
CoBaseContext(format, c, old, h, tcp) ==
    LET c1 == IF BehaviorStored(c, old, h, tcp)
              THEN [c EXCEPT !.last_ip_id_behavior = c.ip_id_behavior]
              ELSE c
        c2 == IF format # "co_common" THEN c1
              ELSE IF h.version = 4
              THEN [c1 EXCEPT !.last_ip_id = ntohs(h.ip_id),
                              !.dscp = h.dscp, !.df = h.df]
              ELSE [c1 EXCEPT !.dscp = h.dscp]
    IN  [c2 EXCEPT !.ttl_hopl = h.ttl_hopl]

\* the first loop of code_CO_packet from the k-th header on
RECURSIVE CoWalk(_, _, _, _, _)
CoWalk(p, ipc, k, remain_data_len, ttl_irregular_chain_flag) ==
    LET h == base_header(p, k)
        sizeof == IF h.version = 4 THEN SizeofIPv4Hdr ELSE SizeofIPv6Hdr
        skip == IF h.version = 4 THEN h.header_length * 4 ELSE SizeofIPv6Hdr
        flag == IF h.ttl_hopl # ipc[k].ttl_hopl
                THEN 1 ELSE ttl_irregular_chain_flag
        payload_size == IF h.version = 4
                        THEN (ntohs(h.length) - h.header_length * 4) % Pow16
                        ELSE ntohs(h.length)
    IN  IF h.version \notin {4, 6} \/ remain_data_len < sizeof
        THEN [ret |-> -1, inner |-> k, remain_data_len |-> remain_data_len,
              ttl_irregular_chain_flag |-> ttl_irregular_chain_flag,
              payload_size |-> 0]
        ELSE IF IsIPTunneling(h.protocol)
        THEN CoWalk(p, ipc, k + 1, remain_data_len - skip, flag)
        ELSE [ret |-> 0, inner |-> k,
              remain_data_len |-> remain_data_len - skip,
              ttl_irregular_chain_flag |-> flag,
              payload_size |-> payload_size]

\* tcp_code_irregular_ip_part: the bytes it writes for one header
IrregularIpLength(c, h, is_innermost, ecn_used, ttl_irregular_chain_flag) ==
    (IF h.version = 4 /\ c.ip_id_behavior = IP_ID_BEHAVIOR_RANDOM
     THEN 2 ELSE 0)
    + (IF ~is_innermost /\ ecn_used # 0 THEN 1 ELSE 0)
    + (IF ~is_innermost /\ ttl_irregular_chain_flag # 0 THEN 1 ELSE 0)

\* an irregular item of an outer header that never holds the TTL
IrregularIpItemNoTtl(c, h, is_innermost, ecn_used, ttl_irregular_chain_flag) ==
    [ip_id |-> IF h.version = 4 /\ c.ip_id_behavior = IP_ID_BEHAVIOR_RANDOM
               THEN <<h.ip_id>> ELSE <<>>,
     dscp_ecn |-> IF ~is_innermost /\ ecn_used # 0
                  THEN <<h.dscp * 4 + h.ip_ecn_flags>> ELSE <<>>,
     ttl_hopl |-> <<>>]

\* tcp_code_irregular_ip_part: the fields it writes for one header, each
\* the sequence of the values written for it
IrregularIpItem(c, h, is_innermost, ecn_used, ttl_irregular_chain_flag) ==
    [ip_id |-> IF h.version = 4 /\ c.ip_id_behavior = IP_ID_BEHAVIOR_RANDOM
               THEN <<h.ip_id>> ELSE <<>>,
     dscp_ecn |-> IF ~is_innermost /\ ecn_used # 0
                  THEN <<h.dscp * 4 + h.ip_ecn_flags>> ELSE <<>>,
     ttl_hopl |-> IF ~is_innermost /\ ttl_irregular_chain_flag # 0
                  THEN <<h.ttl_hopl>> ELSE <<>>]

\* the items of the irregular chain of the IP headers from the k-th on
RECURSIVE IrregularChain(_, _, _, _, _, _)
IrregularChain(p, ipc, inner, k, ecn_used, flag) ==
    <<IrregularIpItem(ipc[k], p.ip[k], k = inner, ecn_used, flag)>>
    \o (IF IsIPTunneling(p.ip[k].protocol)
        THEN IrregularChain(p, ipc, inner, k + 1, ecn_used, flag)
        ELSE <<>>)

\* the irregular chain of the IP headers from the k-th on
RECURSIVE IrregularChainLength(_, _, _, _, _, _)
IrregularChainLength(p, ipc, inner, k, ecn_used, flag) ==
    IrregularIpLength(ipc[k], p.ip[k], k = inner, ecn_used, flag)
    + (IF IsIPTunneling(p.ip[k].protocol)
       THEN IrregularChainLength(p, ipc, inner, k + 1, ecn_used, flag)
       ELSE 0)

\* tcp_code_irregular_tcp_part: the ECN byte if ecn_used, the checksum
IrregularTcpLength(tc) == (IF tc.ecn_used # 0 THEN 1 ELSE 0) + 2

\* an irregular part of TCP that holds the ECN byte in every packet
IrregularTcpItemEcn(tc, ip_inner_ecn, tcp) ==
    [ecn_res |-> <<(ip_inner_ecn * 4 + tcp.tcp_ecn_flags) * 16
                   + tcp.tcp_res_flags>>,
     checksum |-> <<tcp.checksum>>]

\* tcp_code_irregular_tcp_part: the fields it writes
IrregularTcpItem(tc, ip_inner_ecn, tcp) ==
    [ecn_res |-> IF tc.ecn_used # 0
                 THEN <<(ip_inner_ecn * 4 + tcp.tcp_ecn_flags) * 16
                        + tcp.tcp_res_flags>>
                 ELSE <<>>,
     checksum |-> <<tcp.checksum>>]

\* c_ts_lsb: the bytes it writes for the timestamp at pTimestamp against
\* the one of the context, both in network order
c_ts_lsb(context_timestamp, pTimestamp) ==
    LET last == ntohl(context_timestamp)
        ts == ntohl(pTimestamp)
        b0 == ts[2] % 256
        b1 == ts[2] \div 256
        b2 == ts[1] % 256
        b3 == ts[1] \div 256
    IN  IF ts[1] = last[1] /\ ts[2] \div 128 = last[2] \div 128
        THEN <<ts[2] % 128>>
        ELSE IF ts[1] = last[1] /\ ts[2] \div 16384 = last[2] \div 16384
        THEN <<128 + (b1 % 64), b0>>
        ELSE IF ts[1] \div 32 = last[1] \div 32
        THEN <<192 + (b2 % 32), b1, b0>>
        ELSE IF ts[1] \div 8192 = last[1] \div 8192
        THEN <<224 + (b3 % 32), b2, b1, b0>>
        ELSE <<b3, b2, b1, b0>>

\* the two ends of a turn of the loop of tcp_compress_tcp_options that
\* write an XI item: new_index_with_compressed_value (present = 1) and
\* same_index_without_value (present = 0); a turn that ends in a continue
\* before them writes no item
OptionItem(tc, index, present, values, pos, i, aborts) ==
    [tcp_context |-> tc, item |-> <<[index |-> index, present |-> present]>>,
     values |-> values, pos |-> pos, i |-> i, aborts |-> aborts]

\* new_index_with_compressed_value, with the pointer on a TIMESTAMP option
\* or on one of a kind above 8: the compressed value, then the XI item
NewIndexWithCompressedValue(tc, index, area, pos, i) ==
    LET kind == OptByte(area, pos)
        len == OptByte(area, pos + 1)
    IN  CASE kind = TCP_OPT_TIMESTAMP ->
                 OptionItem([tc EXCEPT !.tcp_option_timestamp =
                                           OptTimestamp(area, pos)],
                            index, 1,
                            c_ts_lsb(tc.tcp_option_timestamp[1],
                                     OptTimestamp(area, pos)[1])
                            \o c_ts_lsb(tc.tcp_option_timestamp[2],
                                        OptTimestamp(area, pos)[2]),
                            pos + TCP_OLEN_TIMESTAMP,
                            i - TCP_OLEN_TIMESTAMP, FALSE)
          [] kind > TCP_OPT_TIMESTAMP /\ OptionIndex(kind) <= TCP_INDEX_SACK ->
                 OptionItem(tc, index, 1, <<>>, pos, i, TRUE)
          [] kind > 15 /\ OptionIndex(kind) > TCP_INDEX_SACK ->
                 OptionItem(tc, index, 1, <<>>, pos, i, FALSE)
          [] kind \in 9..15 ->
                 OptionItem(tc, index, 1, <<255, 0>>, pos + len, i - len,
                            FALSE)

\* "try to find a new free index": the first index from TCP_INDEX_SACK + 1
\* on that holds the kind with the same value, or that is free
FindNewIndex(tc, area, pos, i) ==
    LET kind == OptByte(area, pos)
        len == OptByte(area, pos + 1)
        found == {j \in (TCP_INDEX_SACK + 1)..(MAX_TCP_OPTION_INDEX - 1) :
                     \/ /\ tc.tcp_options_list[j] = kind
                        /\ SameStoredValue(tc, j, area, pos)
                     \/ /\ tc.tcp_options_list[j] # kind
                        /\ tc.tcp_options_list[j] = 255}
        index == CHOOSE j \in found : \A k \in found : j <= k
    IN  IF found = {}
        THEN [tcp_context |-> tc, item |-> <<>>, values |-> <<>>,
              pos |-> pos + len, i |-> i - len, aborts |-> FALSE]
        ELSE IF tc.tcp_options_list[index] = kind
        THEN OptionItem(tc, index, 0, <<>>, pos + len, i - len, FALSE)
        ELSE With(StoreOption(tc, index, area, pos),
                  LAMBDA tc2 :
                      IF tc2.tcp_options_free_offset >= MAX_TCP_OPT_SIZE
                      THEN OptionItem(tc2, index, 1, <<>>, pos, i, TRUE)
                      ELSE NewIndexWithCompressedValue(tc2, index, area,
                                                       pos, i))

\* "verify if TCP option not used before with another index", then the
\* test of a full list
NeverUsedOption(tc, area, pos, i) ==
    LET kind == OptByte(area, pos)
        free == FreeIndex(tc.tcp_options_list)
        same == {j \in (TCP_INDEX_SACK + 1)..(free - 1) :
                    /\ tc.tcp_options_list[j] = kind
                    /\ SameStoredValue(tc, j, area, pos)}
    IN  IF same # {}
        THEN OptionItem(tc, CHOOSE j \in same : \A k \in same : j <= k, 0,
                        <<>>, pos, i, FALSE)
        ELSE IF free = MAX_TCP_OPTION_INDEX
        THEN [tcp_context |-> tc, item |-> <<>>, values |-> <<>>,
              pos |-> pos + TCP_OLEN_SACK_PERMITTED,
              i |-> i - TCP_OLEN_SACK_PERMITTED, aborts |-> FALSE]
        ELSE FindNewIndex(tc, area, pos, i)

\* one turn of the loop of tcp_compress_tcp_options with the pointer at
\* position pos and i bytes left, on an EOL, NOP or TIMESTAMP option or on
\* one of a kind above 8: the XI item and the bytes of the compressed value
\* it writes, the context and the place of the pointer it leaves, and
\* whether an assert() stops the program
CompressOption(tc, area, pos, i) ==
    LET kind == OptByte(area, pos)
        index == OptionIndex(kind)
    IN  IF tc.tcp_options_list[index] = kind
        THEN CASE index = TCP_INDEX_NOP ->
                      OptionItem(tc, index, 0, <<>>, pos + 1, i - 1, FALSE)
               [] index = TCP_INDEX_EOL ->
                      OptionItem(tc, index, 0, <<>>, pos, 0, FALSE)
               [] index = TCP_INDEX_TIMESTAMP ->
                      IF tc.tcp_option_timestamp = OptTimestamp(area, pos)
                      THEN OptionItem(tc, index, 0, <<>>,
                                      pos + TCP_OLEN_TIMESTAMP,
                                      i - TCP_OLEN_TIMESTAMP, FALSE)
                      ELSE NewIndexWithCompressedValue(tc, index, area,
                                                       pos, i)
               [] index > TCP_INDEX_SACK /\ index # TCP_INDEX_TIMESTAMP ->
                      IF SameStoredValue(tc, index, area, pos)
                      THEN OptionItem(tc, index, 0, <<>>, pos, i, FALSE)
                      ELSE FindNewIndex(tc, area, pos, i)
        ELSE CASE index = TCP_INDEX_NOP ->
                      OptionItem([tc EXCEPT !.tcp_options_list[index] =
                                                OptByte(area, pos + 1)],
                                 index, 0, <<>>, pos + 1, i - 1, FALSE)
               [] index = TCP_INDEX_EOL ->
                      OptionItem([tc EXCEPT !.tcp_options_list[index] =
                                                kind],
                                 index, 0, <<>>, pos, 0, FALSE)
               [] index = TCP_INDEX_SACK ->
                      NewIndexWithCompressedValue(tc, index, area, pos, i)
               [] index \in {TCP_INDEX_MAXSEG, TCP_INDEX_WINDOW}
                  \/ index > TCP_INDEX_SACK ->
                      NeverUsedOption(tc, area, pos, i)

\* the loop of tcp_compress_tcp_options with the pointer at position pos
\* and i bytes left: the XI items, the compressed values and the context
\* left; aborts if an assert() stops the program, loops if a turn leaves
\* i, the pointer and the context as it found them, so that every turn
\* after it does the same
RECURSIVE tcp_compress_tcp_options(_, _, _, _, _, _)
tcp_compress_tcp_options(tc, area, pos, i, items, values) ==
    IF i <= 0
    THEN [tcp_context |-> tc, items |-> items, values |-> values,
          list_present |-> 1, len |-> 1 + Len(items) + Len(values),
          loops |-> FALSE, aborts |-> FALSE]
    ELSE With(CompressOption(tc, area, pos, i),
              LAMBDA r :
                  IF r.aborts \/ (r.i = i /\ r.tcp_context = tc)
                  THEN [tcp_context |-> r.tcp_context, items |-> items,
                        values |-> values, list_present |-> 1,
                        len |-> 1 + Len(items) + Len(values),
                        loops |-> ~r.aborts, aborts |-> r.aborts]
                  ELSE tcp_compress_tcp_options(r.tcp_context, area, r.pos,
                                                r.i, items \o r.item,
                                                values \o r.values))

\* if(tcp->data_offset > 5) in code_common, code_rnd_8 and code_seq_8: the
\* list of options; the other formats have none
CoOptions(format, tc, tcp) ==
    IF format \in {"co_common", "rnd_8", "seq_8"} /\ tcp.data_offset > 5
    THEN tcp_compress_tcp_options(tc, OptionsArea(tcp.options, 1), 1,
                                  tcp.data_offset * 4 - SizeofTcpHdr,
                                  <<>>, <<>>)
    ELSE [tcp_context |-> tc, items |-> <<>>, values |-> <<>>,
          list_present |-> 0, len |-> 0, loops |-> FALSE,
          aborts |-> FALSE]

\* code_CO_packet: -1 and the context untouched if the packet does not hold
\* its headers, else the length of the CO packet and the context left
code_CO_packet(p, id, ipc, tc) ==
    LET Built(w, format, ipc2, opt, len) ==
            [ret |-> len, ip_context |-> ipc2,
             tcp_context |-> opt.tcp_context,
             loops |-> opt.loops, aborts |-> opt.aborts,
             rohc |-> [NoRohc EXCEPT
                          !.type = "CO", !.format = format, !.len = len,
                          !.list_present = opt.list_present,
                          !.options = opt.items,
                          !.option_values = opt.values,
                          !.ttl_hopl_outer_flag =
                              IF format = "co_common"
                              THEN w.ttl_irregular_chain_flag ELSE 0,
                          !.ip_id_behavior =
                              IF /\ format = "co_common"
                                 /\ p.ip[w.inner].version = 4
                              THEN {ipc[w.inner].ip_id_behavior} ELSE {},
                          !.irregular =
                              IrregularChain(p, ipc2, w.inner, 1,
                                             tc.ecn_used,
                                             w.ttl_irregular_chain_flag),
                          !.irregular_tcp =
                              IrregularTcpItem(tc,
                                               p.ip[w.inner].ip_ecn_flags,
                                               p.tcp)]]
        Lengths(w, format, ipc2, opt) ==
            With(CidCounter(id) - 1
                 + CoBaseLength(format, ipc[w.inner], tc, p.ip[w.inner],
                                p.tcp)
                 + opt.len
                 + IrregularChainLength(p, ipc2, w.inner, 1, tc.ecn_used,
                                        w.ttl_irregular_chain_flag)
                 + IrregularTcpLength(tc),
                 LAMBDA len : Built(w, format, ipc2, opt, len))
        Chains(w, format, ipc2) ==
            With(CoOptions(format, tc, p.tcp),
                 LAMBDA opt : Lengths(w, format, ipc2, opt))
        BaseHeader(w, format) ==
            With([ipc EXCEPT ![w.inner] =
                      CoBaseContext(format, ipc[w.inner], tc.old_tcphdr,
                                    p.ip[w.inner], p.tcp)],
                 LAMBDA ipc2 : Chains(w, format, ipc2))
        Headers(w) ==
            IF w.ret < 0 \/ w.remain_data_len < SizeofTcpHdr
            THEN [ret |-> -1, ip_context |-> ipc, tcp_context |-> tc,
                  loops |-> FALSE, aborts |-> FALSE, rohc |-> NoRohc]
            ELSE With(co_format(ipc[w.inner], tc, p.ip[w.inner], p.tcp,
                                w.payload_size - p.tcp.data_offset * 4,
                                w.ttl_irregular_chain_flag),
                      LAMBDA format : BaseHeader(w, format))
    IN  With(CoWalk(p, ipc, 1, p.size, 0), Headers)

(***************************************************************************)
(* c_tcp_encode.                                                           *)
(***************************************************************************)
\* ++ on an MSN wider than 16 bits
NextMsnWide(msn) == msn + 1

\* ++tcp_context->msn on a uint16_t
NextMsn(msn) == (msn + 1) % Pow16

\* the context after ecn_used and the scaled fields are stored; size is the
\* payload size c_tcp_encode computes, tcp the TCP header of the packet
ScaledContext(tc, tcp, ecn_used, size) ==
    LET seq == c_field_scaling(size, tcp.seq_number)
        ack == c_field_scaling(tc.ack_stride, tcp.ack_number)
    IN  [tc EXCEPT !.ecn_used = ecn_used,
                   !.seq_number_scaled = seq.scaled,
                   !.seq_number_residue = seq.residue,
                   !.ack_number_scaled = ack.scaled,
                   !.ack_number_residue = ack.residue]

\* an end of c_tcp_encode that keeps the numbers in network order
UpdateTcpContextRaw(tc, tcp) ==
    [tc EXCEPT !.msn = NextMsn(tc.msn),
               !.old_tcphdr = tcp,
               !.seq_number = tcp.seq_number,
               !.ack_number = tcp.ack_number]

\* the end of c_tcp_encode: the MSN and the copy of the TCP header
UpdateTcpContext(tc, tcp) ==
    [tc EXCEPT !.msn = NextMsn(tc.msn),
               !.old_tcphdr = tcp,
               !.seq_number = ntohl(tcp.seq_number),
               !.ack_number = ntohl(tcp.ack_number)]

\* c_tcp_encode on packet p: what it returns, the ROHC packet it builds and
\* the state and context it leaves.  The packets of the model hold their
\* TCP header right after the header the first loop ends on.
c_tcp_encode(p) ==
    LET tcp == p.tcp
        Payload(w, r) ==
            IF r.ret < 0 THEN r.rohc
            ELSE [r.rohc EXCEPT
                     !.payload_size = p.size - w.size - SizeofTcpHdr]
        Compressed(w, co) ==
            [ret |-> co.ret, state |-> NextState(state),
             ip_context |-> co.ip_context,
             tcp_context |-> UpdateTcpContext(co.tcp_context, tcp),
             options_context |-> co.tcp_context,
             loops |-> co.loops, aborts |-> co.aborts,
             rohc |-> Payload(w, co)]
        Refreshed(w, ir) ==
            [ret |-> ir.ret, state |-> NextState(state),
             ip_context |-> ir.ip_context,
             tcp_context |-> UpdateTcpContext(ir.tcp_context, tcp),
             options_context |-> ir.tcp_context,
             loops |-> ir.loops, aborts |-> ir.aborts,
             rohc |-> Payload(w, ir)]
        Build(w, tc1, ipc1) ==
            IF PacketId(state) = "CO"
            THEN With(code_CO_packet(p, cid, ipc1, tc1),
                      LAMBDA co : Compressed(w, co))
            ELSE With(code_IR_packet(p, cid, PacketId(state), ipc1, tc1,
                                     w.inner),
                      LAMBDA ir : Refreshed(w, ir))
        Classify(w, tc1) ==
            With(ClassifyInner(ip_context, p, w.inner),
                 LAMBDA ipc1 : Build(w, tc1, ipc1))
        Scale(w) ==
            IF w.ret < 0
            THEN [ret |-> -1, state |-> state, ip_context |-> ip_context,
                  tcp_context |-> tcp_context,
                  options_context |-> tcp_context,
                  loops |-> FALSE, aborts |-> FALSE, rohc |-> NoRohc]
            ELSE With(ScaledContext(tcp_context, tcp,
                                    BitOr2(w.ecn_used, tcp.tcp_ecn_flags),
                                    p.size - w.size - SizeofTcpHdr),
                      LAMBDA tc1 : Classify(w, tc1))
    IN  With(EncodeWalk(p, 1, 0, 0), Scale)

\* the framework gives c_tcp_encode the packet the context was created from,
\* then each packet c_tcp_check_context accepted; ds is the dest_size
\* argument; c_tcp_encode returns
EncodeCall(ds) ==
    /\ \/ pc = "created"
       \/ pc = "ready" /\ op = "check" /\ ret = 1
    /\ \E r \in {c_tcp_encode(pkt)} :
          /\ ~r.loops /\ ~r.aborts
          /\ ret' = r.ret
          /\ state' = r.state
          /\ ip_context' = r.ip_context
          /\ tcp_context' = r.tcp_context
          /\ rohc' = r.rohc
    /\ pc' = "ready"
    /\ op' = "encode" /\ dest_size' = ds
    /\ UNCHANGED <<memory, cid, msn_seed, loop_iter, pkt>>

\* c_tcp_encode on at most MaxCalls packets of a context
Encode(ds) ==
    /\ (tcp_context.msn - msn_seed) % Pow16 < MaxCalls
    /\ EncodeCall(ds)

\* c_tcp_encode reaches, in a loop over the TCP options, a turn that leaves
\* i, the pointer and the context as it found them: the state is changed,
\* the MSN is not, nothing is returned
EncodeEntersOptionLoop ==
    /\ \/ pc = "created"
       \/ pc = "ready" /\ op = "check" /\ ret = 1
    /\ (tcp_context.msn - msn_seed) % Pow16 < MaxCalls
    /\ \E r \in {c_tcp_encode(pkt)} :
          /\ r.loops
          /\ state' = r.state
          /\ ip_context' = r.ip_context
          /\ tcp_context' = r.options_context
    /\ pc' = "encode_option_loop"
    /\ op' = "encode_options"
    /\ loop_iter' = 0
    /\ UNCHANGED <<memory, cid, msn_seed, ret, pkt, dest_size, rohc>>

\* one more turn of that loop: for(...; i > 0; ) finds i as it was, the
\* turn writes one more XI item through a pointer that nothing bounds and
\* changes nothing else; a write past the end of the buffer goes unnoticed
\* or stops the program
EncodeOptionLoop ==
    /\ pc = "encode_option_loop"
    /\ \/ /\ loop_iter' = (loop_iter + 1) % 2
          /\ UNCHANGED <<pc, op>>
       \/ /\ pc' = "aborted"
          /\ op' = "abort"
          /\ UNCHANGED loop_iter
    /\ UNCHANGED <<memory, state, cid, ip_context, tcp_context, msn_seed,
                   ret, pkt, dest_size, rohc>>

\* an assert() of a loop over the TCP options fails in c_tcp_encode: the
\* program stops with the context as the loop left it
EncodeAborts ==
    /\ \/ pc = "created"
       \/ pc = "ready" /\ op = "check" /\ ret = 1
    /\ (tcp_context.msn - msn_seed) % Pow16 < MaxCalls
    /\ \E r \in {c_tcp_encode(pkt)} :
          /\ r.aborts
          /\ state' = r.state
          /\ ip_context' = r.ip_context
          /\ tcp_context' = r.options_context
    /\ pc' = "aborted"
    /\ op' = "abort"
    /\ UNCHANGED <<memory, cid, msn_seed, loop_iter, ret, pkt, dest_size,
                   rohc>>

\* c_generic_destroy, the destroy handler of c_tcp_profile: the framework
\* frees the context when a packet does not belong to it and creates the
\* next context in its place
Destroy ==
    /\ pc = "ready" /\ op = "check" /\ ret # 1
    /\ pc' = "none"
    /\ state' = "IR"
    /\ cid' = 0
    /\ ip_context' = <<>>
    /\ tcp_context' = NoTcpContext
    /\ msn_seed' = 0
    /\ op' = "destroy" /\ ret' = 0
    /\ dest_size' = 0
    /\ rohc' = NoRohc
    /\ pkt' = Packet(<<>>, Tcp0, 0)
    /\ UNCHANGED <<memory, loop_iter>>

Next ==
    \/ Create
    \/ CreateOptionLoop
    \/ \E p \in Packets : CheckContext(p)
    \/ \E ds \in DestSizes : Encode(ds)
    \/ Destroy

Spec == Init /\ [][Next]_vars

(***************************************************************************)
(* A flow that never ends: the framework keeps receiving the packets of    *)
(* one flow and hands each to c_tcp_check_context and c_tcp_encode; the    *)
(* MSN runs through all its values.  The framework goes on as long as it   *)
(* has a call to make, whence the weak fairness.                           *)
(***************************************************************************)
\* the packet of the endless flow
FlowPacket == PktV6(Tcp0, 70)

\* the first packets the framework may create the context from
FirstPackets == {FlowPacket, PktV6Ext("HOPOPTS", Tcp0, 78)}

FairNext ==
    \/ \E p \in FirstPackets, seed \in MsnSeeds : CreateSucceeds(p, 0, seed)
    \/ \E p \in FirstPackets : CreateEntersOptionLoop(p, 0)
    \/ CreateOptionLoop
    \/ CheckContext(FlowPacket)
    \/ EncodeCall(256)

FairSpec == Init /\ [][FairNext]_vars /\ WF_vars(FairNext)

(***************************************************************************)
(* The flows the compressed formats are chosen on: one seed, one CID, a    *)
(* buffer that holds every packet, and packets that differ from the one    *)
(* before in the fields co_baseheader and the IP-ID classifier read.       *)
(***************************************************************************)
\* IP-IDs around the wrap of the counter and of its swapped image
FlowIpIds == {PktV4(id, Tcp0, 50) : id \in {512, 65534, 65535}}

\* TCP headers that differ from Tcp0 in one field co_baseheader compares
FormatVariants ==
    {[Tcp0 EXCEPT !.ack_flag = 0],
     [Tcp0 EXCEPT !.urg_flag = 1, !.urg_ptr = ntohs(7)],
     [Tcp0 EXCEPT !.seq_number = ntohl(U32(1000 + Pow16))],
     [Tcp0 EXCEPT !.ack_number = ntohl(U32(5000 + Pow16))]}

\* packets with the ECN bits of the IP header set
FlowEcn ==
    {WithOuter(PktV4(2, t, 50), SetEcn) :
        t \in {[Tcp0 EXCEPT !.window = ntohs(4010)],
               [Tcp0 EXCEPT !.seq_number = ntohl(U32(1000 + 16384))]}}
    \cup {WithOuter(PktV4(3, Tcp0, 50), SetEcn),
          WithOuter(PktTunnel(1, 2, Tcp0, 70), SetEcn),
          WithOuter(PktV4(3, [Tcp0 EXCEPT !.seq_number = ntohl(U32(10000))],
                          50), SetEcn),
          WithOuter(PktV6([Tcp0 EXCEPT !.seq_number = ntohl(U32(1010))], 70),
                    SetEcn)}

\* the packets of the IPv4 flow the formats are chosen on
FlowFormats ==
    FlowV4 \cup FlowIpIds \cup FlowEcn
    \cup {PktV4(2, t, 50) : t \in FormatVariants}
    \cup {PktV4(3, [Tcp0 EXCEPT !.seq_number = ntohl(U32(1010))], 50)}

\* the transport header of the flows with options: ports 101 -> 200
TsHdr == TcpHdr(101, 200, 1000, 5000)

\* the TSval values of the flows with a TIMESTAMP option: the first one, one
\* in its 7-bit, 14-bit, 21-bit and 29-bit neighbourhood, one outside
TsValues == {100, 101, 300, 70000, 4194404, 1073741924}

\* the IPv6 and the IPv4 flow whose TCP header has NOP, NOP, TIMESTAMP; one
\* packet has the TSval 0xE0000064
FlowTs ==
    {PktV6(TcpTs(TsHdr, ts, 7), 82) : ts \in TsValues}
    \cup {PktV6(TcpTs(TsHdr, 101, 8), 82),
          PktV6(TcpTs([TsHdr EXCEPT !.window = ntohs(4010)], 101, 7), 82),
          PktV6([TcpTs(TsHdr, 100, 7) EXCEPT
                    !.options[3].value[1] = ntohl(<<57344, 100>>)], 82)}
    \cup {PktV4(id, TcpTs(TsHdr, ts, 7), 62) : id \in {1, 5}, ts \in {100, 101}}

\* with them two packets of the IPv6 flow without ACK flag, of 10 and of
\* 20 bytes of payload
FormatPackets ==
    FlowFormats \cup FlowV6 \cup FlowTunnel \cup FlowTs
    \cup {PktV6([Tcp0 EXCEPT !.ack_flag = 0], len) : len \in {70, 80}}

\* the packets a context of these flows is created from
FormatFirstPackets ==
    {PktV4(1, Tcp0, 50), PktV4(256, Tcp0, 50), PktV4(65534, Tcp0, 50),
     PktV6(Tcp0, 70), PktTunnel(1, 2, Tcp0, 70),
     PktV6(TcpTs(TsHdr, 100, 7), 82), PktV4(1, TcpTs(TsHdr, 100, 7), 62)}

FormatNext ==
    \/ \E p \in FormatFirstPackets : CreateSucceeds(p, 0, 5)
    \/ \E p \in FormatPackets : CheckContext(p)
    \/ Encode(256)
    \/ Destroy

FormatSpec == Init /\ [][FormatNext]_vars

(***************************************************************************)
(* The flow with an IPv6 destination-options header, next to the IPv6 flow  *)
(* without one.  The profile is never idle while a call is to be made,      *)
(* whence the weak fairness.                                               *)
(***************************************************************************)
\* IPv6 / destination options of the given value / TCP
PktV6Dst(v) ==
    Packet(<<IPv6Hdr("DSTOPTS", 38,
                     <<[IPv6Opt("TCP", 0) EXCEPT !.value = v]>>)>>, Tcp0, 78)

\* the packets of the flow: the value of the options changes
FlowV6Dst == {PktV6Dst(v) : v \in {0, 1}}

DstNext ==
    \/ \E seed \in MsnSeeds : CreateSucceeds(FlowPacket, 0, seed)
    \/ \E p \in FlowV6Dst : CreateEntersOptionLoop(p, 0)
    \/ CreateOptionLoop
    \/ \E p \in FlowV6 \cup FlowV6Dst : CheckContext(p)
    \/ \E ds \in DestSizes : Encode(ds)
    \/ Destroy

DstSpec == Init /\ [][DstNext]_vars /\ WF_vars(DstNext)

(***************************************************************************)
(* The IPv4 stream whose IP-ID is a counter: the framework hands the        *)
(* packets of the stream one after the other, each with the IP-ID of the    *)
(* packet before plus 1; the TCP header changes freely.                     *)
(***************************************************************************)
StreamPackets ==
    {PktV4(id, t, 50) : id \in 1..MaxCalls, t \in TcpVariants}

\* the packets c_tcp_encode has built for the context: one MSN each
StreamCalls == (tcp_context.msn - msn_seed) % Pow16

StreamNext ==
    \/ CreateSucceeds(PktV4(1, Tcp0, 50), 0, 5)
    \/ \E p \in StreamPackets :
          /\ ntohs(p.ip[1].ip_id) = StreamCalls + 1
          /\ CheckContext(p)
    \/ Encode(256)

StreamSpec == Init /\ [][StreamNext]_vars

(***************************************************************************)
(* The flows with TCP options: an IPv6 flow whose packets carry options    *)
(* without a field of their own in the context, one of them of a kind      *)
(* above 15, in a process whose memory holds one of a few values where the *)
(* program reads before it writes.  The framework goes on as long as it    *)
(* has a call to make.                                                     *)
(***************************************************************************)
\* the packets of the flow, ports 102 -> 200, 10 bytes of payload behind
\* the options.  The options of a packet: one option of kind 9 with one
\* of three values, alone or behind a NOP; one option of kind 10; one of
\* kind 30 and 32 bytes; ten options of kind 9 with ten values, then two NOP
OptPackets ==
    {PktV6(TcpWith(TcpHdr(102, 200, 1000, 5000), o), 70 + OptionsBytes(o, 1)) :
        o \in {<<TcpOptGeneric(9, <<1, 1>>)>>,
               <<TcpOptGeneric(9, <<2, 2>>)>>,
               <<TcpOptNop, TcpOptGeneric(9, <<1>>)>>,
               <<TcpOptGeneric(10, <<1, 1>>)>>,
               <<TcpOptGeneric(30, [j \in 1..30 |-> 1])>>,
               [j \in 1..12 |-> IF j <= 10 THEN TcpOptGeneric(9, <<j>>)
                                          ELSE TcpOptNop]}}

\* the state after construction in a process whose memory holds 0 or 250
\* where malloc() places tcp_options_free_offset, and the index of EOL or 9
\* in the byte tcp_options_index[30] reads
OptInit ==
    /\ pc = "none"
    /\ state = "IR"
    /\ cid = 0
    /\ ip_context = <<>>
    /\ tcp_context = NoTcpContext
    /\ msn_seed = 0
    /\ loop_iter = 0
    /\ op = "none"
    /\ ret = 0
    /\ pkt = Packet(<<>>, Tcp0, 0)
    /\ dest_size = 0
    /\ rohc = NoRohc
    /\ memory \in [tcp_options_free_offset : {0, 250},
                   tcp_options_index : {TCP_INDEX_EOL, 9}]

OptNext ==
    \/ \E p \in OptPackets : CreateSucceeds(p, 0, 5)
    \/ \E p \in OptPackets : CheckContext(p)
    \/ Encode(256)
    \/ EncodeEntersOptionLoop
    \/ EncodeOptionLoop
    \/ EncodeAborts

\* a call that is inside the loop of an option walk runs on
OptSpec == OptInit /\ [][OptNext]_vars /\ WF_vars(EncodeOptionLoop)

(***************************************************************************)
(* The compression of the SACK option: c_tcp_opt_sack applied to options   *)
(* of one or two blocks at, behind and before the acknowledgment number.   *)
(***************************************************************************)
\* c_sack_pure_lsb: the bytes written for field against base, both in host
\* order; the difference is taken modulo 2^32; aborts if the assert() of
\* the last form fails
c_sack_pure_lsb(base, field) ==
    LET lo == (field[2] - base[2] + Pow16) % Pow16
        borrow == IF field[2] < base[2] THEN 1 ELSE 0
        hi == (field[1] - base[1] - borrow + 2 * Pow16) % Pow16
    IN  IF hi = 0 /\ lo < 32768
        THEN [bytes |-> <<lo \div 256, lo % 256>>, aborts |-> FALSE]
        ELSE IF hi < 64
        THEN [bytes |-> <<128 + hi, lo \div 256, lo % 256>>,
              aborts |-> FALSE]
        ELSE [bytes |-> <<192 + ((hi \div 256) % 64), hi % 256,
                          lo \div 256, lo % 256>>,
              aborts |-> hi >= 16384]

\* c_sack_block on the blocks of sack_block from the k-th on, as the loop of
\* c_tcp_opt_sack calls it: the blocks are in network order
RECURSIVE c_sack_block(_, _, _)
c_sack_block(reference, sack_block, k) ==
    IF k > Len(sack_block)
    THEN [bytes |-> <<>>, aborts |-> FALSE]
    ELSE LET start == c_sack_pure_lsb(reference,
                                      ntohl(sack_block[k].block_start))
             end == c_sack_pure_lsb(reference,
                                    ntohl(sack_block[k].block_end))
             next == c_sack_block(reference, sack_block, k + 1)
         IN  [bytes |-> start.bytes \o end.bytes \o next.bytes,
              aborts |-> start.aborts \/ end.aborts \/ next.aborts]

\* c_tcp_opt_sack as the case TCP_OPT_SACK of tcp_compress_tcp_options calls
\* it, on a TCP header with the acknowledgment number ack_value (in host
\* order) and a SACK option of length bytes: the packet is the one with
\* that header, the bytes written are the compressed value
c_tcp_opt_sack(ack_value, length, sack_block) ==
    /\ pc # "aborted"
    /\ pkt' = [pkt EXCEPT !.tcp.ack_number = ntohl(ack_value),
                          !.tcp.options = <<[kind |-> 5, len |-> length,
                                             value |-> sack_block]>>]
    /\ \E r \in {c_sack_block(ack_value,
                              SubSeq(sack_block, 1, (length - 2) \div 8),
                              1)} :
          /\ pc' = IF r.aborts THEN "aborted" ELSE pc
          /\ op' = IF r.aborts THEN "abort" ELSE "c_tcp_opt_sack"
          /\ rohc' = IF r.aborts THEN NoRohc
                     ELSE [NoRohc EXCEPT
                              !.option_values =
                                  <<(length - 2) \div 8>> \o r.bytes]
    /\ UNCHANGED <<memory, state, cid, ip_context, tcp_context, msn_seed,
                   loop_iter, ret, dest_size>>

\* the acknowledgment numbers 5000, 2^16 and 2^32 - 536, and blocks that
\* begin 0, 1000, 2^15 or 2^22 bytes behind them, or 1000 bytes before
\* them, and are 100, 1460, 2^15 or 2^22 bytes long; the second block of an
\* option begins 40000 bytes behind the acknowledgment number
SackSpec ==
    /\ Init
    /\ [][\E ack \in {<<0, 5000>>, <<1, 0>>, <<65535, 65000>>},
             first \in {<<0, 0>>, <<0, 1000>>, <<0, 32768>>, <<64, 0>>,
                        <<65535, 64536>>},
             size \in {<<0, 100>>, <<0, 1460>>, <<0, 32768>>, <<64, 0>>},
             blocks \in 1..2 :
              LET Sum(a, b) ==
                      <<(a[1] + b[1] + ((a[2] + b[2]) \div Pow16)) % Pow16,
                        (a[2] + b[2]) % Pow16>>
                  block == [block_start |-> ntohl(Sum(ack, first)),
                            block_end |->
                                ntohl(Sum(Sum(ack, first), size))]
                  last == [block_start |-> ntohl(Sum(ack, <<0, 40000>>)),
                           block_end |-> ntohl(Sum(ack, <<0, 41000>>))]
              IN  c_tcp_opt_sack(ack, 2 + 8 * blocks,
                                 SubSeq(<<block, last>>, 1, blocks))]_vars

(***************************************************************************)
(* A tunnelled flow that never ends and whose outer TTL changes once: the  *)
(* packets carry an outer TTL of 64 until the context is in the SO state   *)
(* and 63 from then on.  The framework hands every packet it receives to   *)
(* c_tcp_check_context, whence the weak fairness of these calls.           *)
(***************************************************************************)
TtlSpec ==
    /\ Init
    /\ [][\/ \E p \in {PktTunnel(1, 2, Tcp0, 70)} : CreateSucceeds(p, 0, 5)
          \/ \E p \in {PktTunnel(1, 2, Tcp0, 70)} :
                state # "SO" /\ CheckContext(p)
          \/ \E p \in {WithOuter(PktTunnel(1, 2, Tcp0, 70), SetTtl)} :
                state = "SO" /\ CheckContext(p)
          \/ EncodeCall(256)]_vars
    /\ WF_vars(\/ \E p \in {PktTunnel(1, 2, Tcp0, 70)} :
                     state # "SO" /\ CheckContext(p)
               \/ \E p \in {WithOuter(PktTunnel(1, 2, Tcp0, 70), SetTtl)} :
                     state = "SO" /\ CheckContext(p))

(***************************************************************************)
(* IPv4 flows whose IP-ID, or its byte-swapped image, passes the wrap of   *)
(* the 16-bit counter.                                                     *)
(***************************************************************************)
IpIdSpec ==
    /\ Init
    /\ [][\/ \E id \in {0, 512, 65279, 65533, 65534, 65535} :
                CreateSucceeds(PktV4(id, Tcp0, 50), 0, 5)
          \/ \E id \in {0, 512, 65279, 65533, 65534, 65535} :
                CheckContext(PktV4(id, Tcp0, 50))
          \/ Encode(256)]_vars

(***************************************************************************)
(* Properties.                                                             *)
(***************************************************************************)
\* a step that is a call of c_tcp_encode
EncodeStep == op' = "encode" /\ op # "encode"

\* the calls of c_tcp_encode the context has seen
Calls == (tcp_context.msn - msn_seed) % Pow16

\* C1: a context starts in the IR state; the first call of c_tcp_encode that
\* returns a packet finds IR, emits an IR packet with the static and the
\* dynamic chain and leaves FO; the second finds FO, emits an IR-DYN packet
\* with the dynamic chain only and leaves SO; every later one finds SO,
\* emits a CO packet and leaves SO.
C1_RefreshLadder ==
    [][/\ pc' = "created" => state' = "IR"
       /\ EncodeStep /\ ret' > 0 =>
            /\ state = "IR" =>
                 /\ rohc'.type = "IR"
                 /\ rohc'.static_chain /\ rohc'.dynamic_chain
                 /\ state' = "FO"
            /\ state = "FO" =>
                 /\ rohc'.type = "IR_DYN"
                 /\ ~rohc'.static_chain /\ rohc'.dynamic_chain
                 /\ state' = "SO"
            /\ state = "SO" =>
                 /\ rohc'.type = "CO"
                 /\ ~rohc'.static_chain /\ ~rohc'.dynamic_chain
                 /\ state' = "SO"
            /\ state \in {"IR", "FO", "SO"}]_vars

\* the fourth packet of a context: a CO packet built in the SO state
C1_Witness ==
    /\ op = "encode" /\ ret > 0
    /\ Calls = 4
    /\ rohc.type = "CO" /\ state = "SO"

C3_OldHeader ==
    op = "encode" /\ ret > 0 =>
        /\ tcp_context.old_tcphdr = pkt.tcp
        /\ tcp_context.seq_number = ntohl(pkt.tcp.seq_number)
        /\ tcp_context.ack_number = ntohl(pkt.tcp.ack_number)
        /\ pkt.tcp.seq_number
             = <<swab16(tcp_context.seq_number[2]),
                 swab16(tcp_context.seq_number[1])>>

\* a CO packet whose TCP header is not the one the context was created from
C3_Witness ==
    /\ op = "encode" /\ ret > 0
    /\ rohc.type = "CO"
    /\ tcp_context.old_tcphdr # Tcp0
    /\ tcp_context.seq_number = U32(1010)

\* C4: a call of c_tcp_encode that returns -1 leaves the context as it
\* found it: refresh state, MSN, old_tcphdr, seq_number and ack_number,
\* ecn_used, the scaled values and residues, and the IP-ID behaviour and
\* last_ip_id of every IP record.
C4_FailureLeavesContext ==
    [][EncodeStep /\ ret' = -1 =>
           UNCHANGED <<state, ip_context, tcp_context>>]_vars

\* C5: a call of c_tcp_encode with a dest_size smaller than the ROHC packet
\* returns a failure and writes no more than dest_size bytes.
C5_NoWriteBeyondDest ==
    op = "encode" => rohc.len <= dest_size /\ ret <= dest_size

\* C6: after a CO packet the flow sees an IR or IR-DYN packet again.
C6_RefreshRecurs ==
    (op = "encode" /\ ret > 0 /\ rohc.type = "CO")
        ~> (op = "encode" /\ ret > 0 /\ rohc.type \in {"IR", "IR_DYN"})

\* C7: c_tcp_create returns 1 when it built the context and 0 in every
\* other case.
C7_CreateReturns01 ==
    op = "create" /\ pc # "create_option_loop" =>
        \/ ret = 1 /\ pc = "created"
        \/ ret = 0 /\ pc = "none"

\* C8: c_tcp_create does not succeed on a packet whose IP chain ends in a
\* protocol other than TCP.
C8_CreateNeedsTcp ==
    op = "create" /\ pc = "created" /\ ret = 1 =>
        pkt.ip[Len(pkt.ip)].protocol = "TCP"

\* C9: c_tcp_create returns: it leaves the loop over the IPv6 extension
\* headers it entered.
C9_CreateTerminates ==
    (pc = "create_option_loop") ~> (pc # "create_option_loop")

\* the packet has the chain of the context: length, versions, addresses,
\* protocols, flow labels, and the ports of old_tcphdr
Belongs(p) ==
    /\ Len(p.ip) = Len(ip_context)
    /\ \A k \in 1..Len(p.ip) :
          /\ k <= Len(ip_context)
          /\ p.ip[k].version = ip_context[k].version
          /\ p.ip[k].src_addr = ip_context[k].src_addr
          /\ p.ip[k].dest_addr = ip_context[k].dst_addr
          /\ p.ip[k].protocol = ip_context[k].protocol
          /\ p.ip[k].version = 6 =>
                /\ p.ip[k].flow_label1 = ip_context[k].flow_label1
                /\ p.ip[k].flow_label2 = ip_context[k].flow_label2
    /\ p.tcp.src_port = tcp_context.old_tcphdr.src_port
    /\ p.tcp.dst_port = tcp_context.old_tcphdr.dst_port

\* the bytes the IP headers of the packet take
RECURSIVE IpHeadersLength(_, _)
IpHeadersLength(p, k) ==
    IF k > Len(p.ip) THEN 0
    ELSE (IF p.ip[k].version = 6 THEN 40 ELSE 20) + IpHeadersLength(p, k + 1)

\* the values of rohc_packet_t that name a CO packet
CoPacketTypes ==
    {"PACKET_CO_COMMON"}
    \cup {"PACKET_RND_" \o d : d \in {"1", "2", "3", "4", "5", "6", "7", "8"}}
    \cup {"PACKET_SEQ_" \o d : d \in {"1", "2", "3", "4", "5", "6", "7", "8"}}

\* C11: every call of c_tcp_encode that returns a packet stores in
\* packet_type the type of the packet it built: IR in the IR state, IR-DYN
\* in the FO state, a CO type in the SO state.
C11_PacketType ==
    [][EncodeStep /\ ret' > 0 =>
           /\ state = "IR" => rohc'.packet_type = "PACKET_IR"
           /\ state = "FO" => rohc'.packet_type = "PACKET_IR_DYN"
           /\ state = "SO" => rohc'.packet_type \in CoPacketTypes]_vars

\* the record of the innermost IP header of the context
InnerContext == ip_context[Len(ip_context)]

\* the innermost IP header of the packet of the last call
InnerHeader == pkt.ip[Len(pkt.ip)]

\* C12: after a call of c_tcp_encode that returned a packet, whatever the
\* packet format, last_ip_id of the record of an innermost IPv4 header is the
\* IP-ID of that packet in host order.
C12_LastIpId ==
    op = "encode" /\ ret > 0 /\ InnerContext.version = 4 =>
        InnerContext.last_ip_id = ntohs(InnerHeader.ip_id)

\* x + 1 on a 16-bit IP-ID
Succ16(x) == (x + 1) % Pow16

\* the rows of the transition table of the IP-ID behaviour from a known
\* behaviour, tried in their order; last and id are IP-IDs in host order
TableBehavior(behavior, last, id) ==
    CASE behavior = IP_ID_BEHAVIOR_SEQUENTIAL ->
            IF Succ16(last) = id THEN IP_ID_BEHAVIOR_SEQUENTIAL
            ELSE IP_ID_BEHAVIOR_RANDOM
      [] behavior = IP_ID_BEHAVIOR_SEQUENTIAL_SWAPPED ->
            IF Succ16(swab16(last)) = swab16(id)
            THEN IP_ID_BEHAVIOR_SEQUENTIAL_SWAPPED
            ELSE IP_ID_BEHAVIOR_RANDOM
      [] behavior = IP_ID_BEHAVIOR_RANDOM ->
            IF Succ16(last) = id THEN IP_ID_BEHAVIOR_SEQUENTIAL
            ELSE IF Succ16(swab16(last)) = swab16(id)
                 THEN IP_ID_BEHAVIOR_SEQUENTIAL_SWAPPED
                 ELSE IF id = 0 THEN IP_ID_BEHAVIOR_ZERO
                      ELSE IP_ID_BEHAVIOR_RANDOM
      [] behavior = IP_ID_BEHAVIOR_ZERO ->
            IF id = 0 THEN IP_ID_BEHAVIOR_ZERO
            ELSE IF id = 1 THEN IP_ID_BEHAVIOR_SEQUENTIAL
                 ELSE IF id = 256 THEN IP_ID_BEHAVIOR_SEQUENTIAL_SWAPPED
                      ELSE IP_ID_BEHAVIOR_RANDOM

\* the rows of the table from the unknown behaviour
TableFromUnknown(last, id) ==
    IF id = 0 THEN IP_ID_BEHAVIOR_ZERO
    ELSE IF Succ16(last) = id THEN IP_ID_BEHAVIOR_SEQUENTIAL
         ELSE IF Succ16(swab16(last)) = swab16(id)
              THEN IP_ID_BEHAVIOR_SEQUENTIAL_SWAPPED
              ELSE IF last = id THEN IP_ID_BEHAVIOR_UNKNOWN
                   ELSE IP_ID_BEHAVIOR_RANDOM

\* C13: from the behaviour sequential, sequential-swapped, random or zero,
\* the behaviour c_tcp_encode computes for the innermost IPv4 header from
\* last_ip_id and the IP-ID of the packet is the one of the transition table.
C13_KnownBehaviorTable ==
    [][/\ EncodeStep /\ ret' > 0
       /\ InnerContext.version = 4
       /\ InnerContext.ip_id_behavior # IP_ID_BEHAVIOR_UNKNOWN
       => InnerContext'.ip_id_behavior
            = TableBehavior(InnerContext.ip_id_behavior,
                            InnerContext.last_ip_id,
                            ntohs(InnerHeader'.ip_id))]_vars

\* C14: from the behaviour unknown, c_tcp_encode goes to zero if the IP-ID
\* is 0, else to sequential if last + 1 is the IP-ID, else to swapped if
\* swap(last) + 1 is swap(IP-ID), stays unknown if last is the IP-ID, and
\* goes to random in every other case.
C14_UnknownBehaviorTable ==
    [][/\ EncodeStep /\ ret' > 0
       /\ InnerContext.version = 4
       /\ InnerContext.ip_id_behavior = IP_ID_BEHAVIOR_UNKNOWN
       => InnerContext'.ip_id_behavior
            = TableFromUnknown(InnerContext.last_ip_id,
                               ntohs(InnerHeader'.ip_id))]_vars

\* the high 16 bits of a 32-bit number in network order
HighWord(n) == ntohl(n)[1]

\* one of the enumerated triggers holds in a call of c_tcp_encode: the
\* packet against the context the call found, the IP-ID behaviour the call
\* computed against the behaviour last announced
TriggerInCall ==
    LET old == tcp_context.old_tcphdr
        tcp == pkt.tcp
    IN  \/ tcp.ack_flag # old.ack_flag
        \/ tcp.urg_flag # old.urg_flag
        \/ /\ InnerContext.version = 4
           /\ InnerContext'.ip_id_behavior # InnerContext.last_ip_id_behavior
        \/ InnerContext.version = 4 /\ InnerHeader.df # InnerContext.df
        \/ tcp.tcp_ecn_flags # old.tcp_ecn_flags
        \/ HighWord(tcp.seq_number) # HighWord(old.seq_number)
        \/ tcp.ack_flag = 1
              /\ HighWord(tcp.ack_number) # HighWord(old.ack_number)
        \/ tcp.urg_flag = 1
        \/ \E k \in 1..Len(ip_context) :
              pkt.ip[k].ttl_hopl # ip_context[k].ttl_hopl

\* C15: in the SO state, when one of the enumerated triggers holds for the
\* packet against the context, the format co_baseheader chooses is
\* co_common.
C15_TriggersForceCommon ==
    [][EncodeStep /\ state = "SO" /\ ret' > 0 /\ TriggerInCall =>
           rohc'.format = "co_common"]_vars

\* a CO packet for a TCP header with the URG flag set
C15_Witness ==
    /\ op = "encode" /\ ret > 0
    /\ rohc.type = "CO" /\ rohc.format = "co_common"
    /\ pkt.tcp.urg_flag = 1

\* C16 as stated: in the SO state, when no enumerated trigger holds and
\* ecn_used is set for the packet, the format chosen is seq_8 or rnd_8.
C16_EcnFormat8 ==
    [][/\ EncodeStep /\ state = "SO" /\ ret' > 0
       /\ ~TriggerInCall
       /\ tcp_context'.ecn_used # 0
       => rohc'.format \in {"seq_8", "rnd_8"}]_vars

\* the upper 18 bits of two 32-bit numbers in network order are the same
SameUpper18(a, b) ==
    /\ HighWord(a) = HighWord(b)
    /\ ntohl(a)[2] \div 16384 = ntohl(b)[2] \div 16384

\* C16 amended: in the SO state, when no enumerated trigger holds, ecn_used
\* is set for the packet, and the window and the upper 18 bits of the
\* sequence number are those of old_tcphdr, the format chosen is seq_8 or
\* rnd_8.
C16_EcnFormat8SameWindow ==
    [][/\ EncodeStep /\ state = "SO" /\ ret' > 0
       /\ ~TriggerInCall
       /\ tcp_context'.ecn_used # 0
       /\ pkt.tcp.window = tcp_context.old_tcphdr.window
       /\ SameUpper18(pkt.tcp.seq_number, tcp_context.old_tcphdr.seq_number)
       => rohc'.format \in {"seq_8", "rnd_8"}]_vars

\* a seq_8 packet for a packet with ECN bits set
C16_Witness ==
    /\ op = "encode" /\ ret > 0
    /\ rohc.type = "CO" /\ rohc.format = "seq_8"
    /\ tcp_context.ecn_used # 0

SeqFormats == {"seq_" \o d : d \in {"1", "2", "3", "4", "5", "6", "7", "8"}}

RndFormats == {"rnd_" \o d : d \in {"1", "2", "3", "4", "5", "6", "7", "8"}}

\* C17: a CO packet has a seq_1 .. seq_8 format only when the innermost
\* header is IPv4 and its IP-ID behaviour is sequential or
\* sequential-swapped; any other CO packet has a rnd_1 .. rnd_8 format or
\* co_common.
C17_SeqNeedsSequential ==
    op = "encode" /\ ret > 0 /\ rohc.type = "CO" =>
        /\ rohc.format \in SeqFormats \cup RndFormats \cup {"co_common"}
        /\ rohc.format \in SeqFormats =>
              /\ InnerContext.version = 4
              /\ InnerContext.ip_id_behavior
                    \in {IP_ID_BEHAVIOR_SEQUENTIAL,
                         IP_ID_BEHAVIOR_SEQUENTIAL_SWAPPED}

\* a seq_X packet of a flow with a swapped IP-ID counter
C17_Witness ==
    /\ op = "encode" /\ ret > 0 /\ rohc.type = "CO"
    /\ rohc.format \in SeqFormats
    /\ InnerContext.ip_id_behavior = IP_ID_BEHAVIOR_SEQUENTIAL_SWAPPED

\* the flags of two TCP headers are the same
SameFlags(a, b) ==
    /\ a.tcp_res_flags = b.tcp_res_flags /\ a.tcp_ecn_flags = b.tcp_ecn_flags
    /\ a.urg_flag = b.urg_flag /\ a.ack_flag = b.ack_flag
    /\ a.psh_flag = b.psh_flag /\ a.rsf_flags = b.rsf_flags

\* the packet of the call is the next of a steady IPv4 stream: the payload
\* size of the packet before (the factor the context scaled its sequence
\* number with) and of this one are the same and not 0, and the sequence
\* number is that many bytes further
SteadyStream ==
    LET old == tcp_context.old_tcphdr
        tcp == pkt.tcp
        payload == pkt.size - SizeofIPv4Hdr - SizeofTcpHdr
    IN  /\ Len(pkt.ip) = 1 /\ InnerContext.version = 4
        /\ tcp.data_offset = 5
        /\ tcp.window = old.window
        /\ SameFlags(tcp, old) /\ tcp.ack_flag = 1
        /\ tcp.ack_number = old.ack_number
        /\ payload > 0
        /\ tcp_context.seq_number_scaled
             = c_field_scaling(payload, old.seq_number).scaled
        /\ tcp_context.seq_number_residue
             = c_field_scaling(payload, old.seq_number).residue
        /\ ntohl(tcp.seq_number)
             = <<ntohl(old.seq_number)[1], ntohl(old.seq_number)[2] + payload>>

\* C18: in the SO state, for the next packet of a steady IPv4 stream with a
\* sequential IP-ID, no TCP option, the window, the flags (ACK set) and the
\* acknowledgment number of the packet before, the same payload size, not
\* 0, and a sequence number that many bytes further, the format chosen is
\* seq_2.  The stream is steady: no enumerated trigger holds.
C18_SteadyStreamSeq2 ==
    [][/\ EncodeStep /\ state = "SO" /\ ret' > 0
       /\ SteadyStream
       /\ ~TriggerInCall
       /\ InnerContext.ip_id_behavior = IP_ID_BEHAVIOR_SEQUENTIAL
       /\ InnerContext'.ip_id_behavior = IP_ID_BEHAVIOR_SEQUENTIAL
       => rohc'.format = "seq_2"]_vars

\* the timestamp a decompressor reads from the first timestamp-LSB field of
\* bytes against the timestamp last of its context, and the bytes the field
\* takes: the discriminators 0, 10, 110 and 111 carry 7, 14, 21 and 29 low
\* bits, the other bits are those of last
TsLsbDecode(last, bytes) ==
    LET d == bytes[1]
        used == IF d < 128 THEN 1 ELSE IF d < 192 THEN 2
                ELSE IF d < 224 THEN 3 ELSE 4
    IN  IF bytes = <<>> \/ Len(bytes) < used
        THEN [value |-> <<-1, -1>>, used |-> 0]
        ELSE [used |-> used,
              value |->
                  CASE used = 1 ->
                           <<last[1], (last[2] \div 128) * 128 + d>>
                    [] used = 2 ->
                           <<last[1], (last[2] \div 16384) * 16384
                                      + (d % 64) * 256 + bytes[2]>>
                    [] used = 3 ->
                           <<(last[1] \div 32) * 32 + (d % 32),
                             bytes[2] * 256 + bytes[3]>>
                    [] used = 4 ->
                           <<(last[1] \div 8192) * 8192 + (d % 32) * 256
                             + bytes[2],
                             bytes[3] * 256 + bytes[4]>>]

\* the bytes are the timestamp-LSB fields of TSval and TSecr of the
\* TIMESTAMP value new against the cached value last
IsTsLsbOf(bytes, last, new) ==
    LET v == TsLsbDecode(ntohl(last[1]), bytes)
        e == TsLsbDecode(ntohl(last[2]),
                         SubSeq(bytes, v.used + 1, Len(bytes)))
    IN  /\ v.used > 0 /\ e.used > 0
        /\ v.used + e.used = Len(bytes)
        /\ v.value = ntohl(new[1])
        /\ e.value = ntohl(new[2])

\* the call is in state SO on a packet whose i-th TCP option is a TIMESTAMP
\* the table holds at its index with another value, the IP-ID behaviour is
\* random, no field forces co_common and the window is unchanged
TimestampChanged(i) ==
    /\ EncodeStep /\ state = "SO" /\ ret' > 0
    /\ ~TriggerInCall
    /\ InnerContext.ip_id_behavior = IP_ID_BEHAVIOR_RANDOM
    /\ InnerContext'.ip_id_behavior = IP_ID_BEHAVIOR_RANDOM
    /\ pkt.tcp.window = tcp_context.old_tcphdr.window
    /\ i \in 1..Len(pkt.tcp.options)
    /\ pkt.tcp.options[i].kind = TCP_OPT_TIMESTAMP
    /\ tcp_context.tcp_options_list[TCP_INDEX_TIMESTAMP] = TCP_OPT_TIMESTAMP
    /\ pkt.tcp.options[i].value # tcp_context.tcp_option_timestamp

\* C19: in state SO, on a flow of random IP-ID behaviour, without a trigger of
\* co_common, with the window unchanged and a TIMESTAMP option whose value is
\* not the cached one, the packet is a rnd_8 with list_present = 1, the
\* TIMESTAMP has its XI item under the index of the table with a value, the
\* value is the timestamp-LSB encoding of the new timestamp against the
\* cached one, and the cached timestamp becomes the new one
C19_TimestampRnd8 ==
    [][\A i \in 1..3 :
           TimestampChanged(i) =>
               /\ rohc'.format = "rnd_8"
               /\ rohc'.list_present = 1
               /\ rohc'.options[i]
                      = [index |-> TCP_INDEX_TIMESTAMP, present |-> 1]
               /\ IsTsLsbOf(rohc'.option_values,
                            tcp_context.tcp_option_timestamp,
                            pkt.tcp.options[i].value)
               /\ tcp_context'.tcp_option_timestamp
                      = pkt.tcp.options[i].value]_vars

\* the TTL of the outer header of a tunnelled packet is not the one of the
\* context
OuterTtlChanged ==
    /\ Len(pkt.ip) = 2 /\ Len(ip_context) = 2
    /\ pkt.ip[1].version = 4
    /\ pkt.ip[1].ttl_hopl # ip_context[1].ttl_hopl

\* C20: in the SO state, for a packet of a tunnelled flow whose outer IPv4
\* TTL is not the one of the context, the format is co_common with
\* ttl_hopl_outer_flag 1 and the irregular item of the outer header holds
\* the TTL of the packet.
C20_OuterTtl ==
    [][EncodeStep /\ state = "SO" /\ ret' > 0 /\ OuterTtlChanged =>
           /\ rohc'.format = "co_common"
           /\ rohc'.ttl_hopl_outer_flag = 1
           /\ rohc'.irregular[1].ttl_hopl = <<pkt.ip[1].ttl_hopl>>]_vars

\* a co_common packet of the tunnel with the TTL 63 in the outer item
C20_Witness ==
    /\ op = "encode" /\ ret > 0 /\ rohc.type = "CO"
    /\ Len(pkt.ip) = 2
    /\ pkt.ip[1].ttl_hopl = 63 /\ ip_context[1].ttl_hopl = 64
    /\ rohc.ttl_hopl_outer_flag = 1
    /\ rohc.irregular[1].ttl_hopl = <<63>>

\* C10 as stated: c_tcp_check_context returns 1 exactly when the packet has
\* the chain, the addresses, protocols and flow labels of the context and
\* the ports of old_tcphdr, and 0 for any other packet.
C10_CheckContextExact ==
    op = "check" => ret = IF Belongs(pkt) THEN 1 ELSE 0

\* C10 amended: for a packet that holds all its IP headers,
\* c_tcp_check_context returns 1 exactly when the packet has the chain, the
\* addresses, protocols and flow labels of the context and the ports of
\* old_tcphdr and each of its IPv4 headers has a header length of 5 and
\* neither MF nor RF set; it returns 0 for any other such packet.
C10_CheckContextShape ==
    op = "check" /\ IpHeadersLength(pkt, 1) <= pkt.size =>
        ret = IF /\ Belongs(pkt)
                 /\ \A k \in 1..Len(pkt.ip) :
                       pkt.ip[k].version = 4 =>
                          /\ pkt.ip[k].header_length = 5
                          /\ pkt.ip[k].mf = 0
                          /\ pkt.ip[k].rf = 0
              THEN 1 ELSE 0

\* a packet of the flow but for its IPv4 options, refused
C10_Witness ==
    /\ op = "check" /\ ret = 0
    /\ Belongs(pkt)
    /\ pkt.ip[1].header_length = 6

\* the packet carries an IPv6 destination-options header
HasDstOpts(p) == \E k \in 1..Len(p.ip) : p.ip[k].protocol = "DSTOPTS"

\* C21: on a flow whose packets carry an IPv6 destination-options header,
\* once the context is asked for, a packet of the flow is found to belong to
\* it (c_tcp_check_context returns 1) and the c_tcp_encode that follows
\* writes a packet with the dynamic chain.
C21_DstOptsRefresh ==
    (op = "create" /\ HasDstOpts(pkt))
        ~> (/\ op = "encode" /\ ret > 0 /\ HasDstOpts(pkt)
            /\ rohc.dynamic_chain)

\* C22: with ack_stride = 0 no packet is encoded in a format that carries
\* ack_number_scaled (rnd_4, seq_4).
C22_NoScaledAckWithoutStride ==
    op = "encode" /\ ret > 0 /\ tcp_context.ack_stride = 0 =>
        rohc.format \notin {"rnd_4", "seq_4"}

\* C26: on the IPv4 stream whose IP-ID grows by 1 from each packet to the
\* next, a context whose IP-ID behaviour is sequential has it sequential
\* after the call of c_tcp_encode too.
C26_SequentialStays ==
    [][/\ EncodeStep /\ ret' > 0
       /\ InnerContext.ip_id_behavior = IP_ID_BEHAVIOR_SEQUENTIAL
       => InnerContext'.ip_id_behavior = IP_ID_BEHAVIOR_SEQUENTIAL]_vars

\* ttl_irregular_chain_flag of the call: code_CO_packet sets it when the
\* TTL or Hop Limit of a header of the packet is not the one of its record
TtlFlagInCall ==
    \E k \in 1..Len(pkt.ip) : pkt.ip[k].ttl_hopl # ip_context[k].ttl_hopl

\* C27: a packet built in the SO state is a CO packet without static and
\* without dynamic chain; its irregular chain has one item per IP header, in
\* the order of the headers: the IP-ID iff the header is IPv4 and its
\* behaviour random, for a header that is not the innermost one DSCP and ECN
\* byte iff ecn_used and one TTL byte iff ttl_irregular_chain_flag, nothing
\* else; then for TCP one byte of ECN and reserved flags iff ecn_used and the
\* checksum.
C27_IrregularChain ==
    [][EncodeStep /\ state = "SO" /\ ret' > 0 =>
           /\ rohc'.type = "CO"
           /\ ~rohc'.static_chain /\ ~rohc'.dynamic_chain
           /\ Len(rohc'.irregular) = Len(pkt.ip)
           /\ \A k \in 1..Len(pkt.ip) :
                 LET item == rohc'.irregular[k]
                     h == pkt.ip[k]
                     outer == k < Len(pkt.ip)
                 IN  /\ item.ip_id
                          = IF /\ h.version = 4
                               /\ ip_context'[k].ip_id_behavior
                                      = IP_ID_BEHAVIOR_RANDOM
                            THEN <<h.ip_id>> ELSE <<>>
                     /\ item.dscp_ecn
                          = IF outer /\ tcp_context'.ecn_used # 0
                            THEN <<h.dscp * 4 + h.ip_ecn_flags>> ELSE <<>>
                     /\ item.ttl_hopl
                          = IF outer /\ TtlFlagInCall
                            THEN <<h.ttl_hopl>> ELSE <<>>
           /\ Len(rohc'.irregular_tcp.ecn_res)
                  = (IF tcp_context'.ecn_used # 0 THEN 1 ELSE 0)
           /\ rohc'.irregular_tcp.checksum = <<pkt.tcp.checksum>>]_vars

\* a CO packet of the tunnel with the ECN bytes and the TTL of the outer
\* header in its irregular chain
C27_Witness ==
    /\ op = "encode" /\ ret > 0 /\ rohc.type = "CO"
    /\ Len(pkt.ip) = 2
    /\ Len(rohc.irregular) = 2
    /\ Len(rohc.irregular[1].dscp_ecn) = 1
    /\ Len(rohc.irregular[1].ttl_hopl) = 1
    /\ Len(rohc.irregular_tcp.ecn_res) = 1

\* C28 as stated: ttl_hopl_outer_flag is 1 in a packet built in the SO state
\* iff the TTL or Hop Limit of a header that is not the innermost one is not
\* the one of the context.
C28_TtlFlagOuterOnly ==
    [][EncodeStep /\ state = "SO" /\ ret' > 0 =>
           (rohc'.ttl_hopl_outer_flag = 1
            <=> \E k \in 1..(Len(pkt.ip) - 1) :
                    pkt.ip[k].ttl_hopl # ip_context[k].ttl_hopl)]_vars

\* the table of the options holds the kind and the value of option o at an
\* index behind the fixed ones
KnownOption(tc, o) ==
    \E j \in (TCP_INDEX_SACK + 1)..(MAX_TCP_OPTION_INDEX - 1) :
        /\ tc.tcp_options_list[j] = o.kind
        /\ tc.tcp_options_values[tc.tcp_options_offset[j]] = o.value

\* the packet of the call carries one option, of a kind from 9 to 15, that
\* the table does not hold with its value, and no index is free
NewOptionOnFullTable ==
    /\ Len(pkt.tcp.options) = 1
    /\ pkt.tcp.options[1].kind \in 9..15
    /\ ~KnownOption(tcp_context, pkt.tcp.options[1])
    /\ FreeIndex(tcp_context.tcp_options_list) = MAX_TCP_OPTION_INDEX

\* C23: a CO packet built for an option that needs a new index when none
\* is free has the XI item of the option and the two bytes of the generic
\* irregular form, and the call leaves tcp_options_list,
\* tcp_options_offset and the saved values as they were.
C23_FullTableEmits ==
    [][EncodeStep /\ ret' > 0 /\ rohc'.type = "CO" /\ NewOptionOnFullTable
           => /\ Len(rohc'.options) = 1
              /\ rohc'.options[1].present = 1
              /\ rohc'.option_values = <<255, 0>>
              /\ tcp_context'.tcp_options_list
                     = tcp_context.tcp_options_list
              /\ tcp_context'.tcp_options_offset
                     = tcp_context.tcp_options_offset
              /\ tcp_context'.tcp_options_values
                     = tcp_context.tcp_options_values]_vars

\* C24: the first free offset of the values of the options stays below the
\* size of tcp_options_values, and every value saved (its length byte at
\* its offset, its bytes behind) lies inside tcp_options_values.
C24_ArenaWithinCapacity ==
    /\ tcp_context.tcp_options_free_offset < MAX_TCP_OPT_SIZE
    /\ \A offset \in DOMAIN tcp_context.tcp_options_values :
           offset + Len(tcp_context.tcp_options_values[offset])
               < MAX_TCP_OPT_SIZE

\* the place of the first option of a kind above 15 in packet p, 0 if it
\* has none
FirstInvalidOption(p) ==
    LET invalid == {j \in 1..Len(p.tcp.options) : p.tcp.options[j].kind > 15}
    IN  IF invalid = {} THEN 0
        ELSE CHOOSE j \in invalid : \A k \in invalid : j <= k

\* C25: a call of c_tcp_encode on a packet with an option of a kind above
\* 15 returns a packet, and the list of the packet has no XI item behind
\* the one of that option.
C25_InvalidKindEndsWalk ==
    [][/\ pc = "created" \/ (pc = "ready" /\ op = "check" /\ ret = 1)
       /\ FirstInvalidOption(pkt) > 0
       => /\ op' = "encode"
          /\ ret' > 0
          /\ Len(rohc'.options) <= FirstInvalidOption(pkt)]_vars

\* C29: a call of c_tcp_encode in the SO state that walks, in
\* tcp_compress_tcp_options, the options of a packet whose options are all
\* of a kind up to 15 with their length inside the options, leaves the loop
\* of the walk: the call comes to an end.
C29_CompressOptionsTerminates ==
    (/\ pc = "encode_option_loop"
     /\ state = "SO"
     /\ pkt.tcp.data_offset > 5
     /\ FirstInvalidOption(pkt) = 0)
        ~> (pc # "encode_option_loop")

\* C30: a call of c_tcp_encode on a packet whose options are all of a kind
\* up to 15 records, in every slot of tcp_options_list that was free and is
\* occupied after it, the kind of an option of the packet, and in a slot up
\* to TCP_INDEX_SACK the kind that tcp_options_index assigns to that slot.
C30_RecordedKind ==
    [][/\ pc = "created" \/ (pc = "ready" /\ op = "check" /\ ret = 1)
       /\ FirstInvalidOption(pkt) = 0
       => \A j \in 0..(MAX_TCP_OPTION_INDEX - 1) :
              /\ tcp_context.tcp_options_list[j] = 255
              /\ tcp_context'.tcp_options_list[j] # 255
              => \E n \in 1..Len(pkt.tcp.options) :
                     /\ pkt.tcp.options[n].kind =
                            tcp_context'.tcp_options_list[j]
                     /\ j <= TCP_INDEX_SACK =>
                            OptionIndex(pkt.tcp.options[n].kind) = j]_vars

\* C31: a call of c_tcp_encode that follows a call which built a packet of
\* the context chooses a format with the scaled sequence number (rnd_2,
\* rnd_6, seq_2, seq_6) only for a payload size that is not zero and is the
\* payload size of the packet before, and a format with the scaled
\* acknowledgment number (rnd_4, seq_4) only with the ack_stride the context
\* had for the packet before.
C31_ScaledNeedsStablePayload ==
    [][EncodeStep /\ ret' > 0 /\ rohc.type # "none" =>
           /\ rohc'.format \in {"rnd_2", "rnd_6", "seq_2", "seq_6"} =>
                  /\ rohc'.payload_size # 0
                  /\ rohc'.payload_size = rohc.payload_size
           /\ rohc'.format \in {"rnd_4", "seq_4"} =>
                  tcp_context'.ack_stride = tcp_context.ack_stride]_vars

\* the pairs <<k, p>> of the c_lsb calls that encode the sequence number,
\* the acknowledgment number and the window in a compressed format; <<>>
\* where the format carries the field in another way or not at all
LsbFields(format) ==
    CASE format = "rnd_1" ->
             [seq |-> <<18, 65535>>, ack |-> <<>>, window |-> <<>>]
      [] format = "rnd_3" ->
             [seq |-> <<>>, ack |-> <<15, 8191>>, window |-> <<>>]
      [] format = "rnd_5" ->
             [seq |-> <<14, 8191>>, ack |-> <<15, 8191>>, window |-> <<>>]
      [] format = "rnd_6" ->
             [seq |-> <<>>, ack |-> <<16, 16383>>, window |-> <<>>]
      [] format = "rnd_7" ->
             [seq |-> <<>>, ack |-> <<18, 65535>>, window |-> <<>>]
      [] format = "rnd_8" ->
             [seq |-> <<16, 65535>>, ack |-> <<16, 65535>>, window |-> <<>>]
      [] format = "seq_1" ->
             [seq |-> <<16, 32767>>, ack |-> <<>>, window |-> <<>>]
      [] format \in {"seq_3", "seq_6"} ->
             [seq |-> <<>>, ack |-> <<16, 16383>>, window |-> <<>>]
      [] format = "seq_5" ->
             [seq |-> <<16, 32767>>, ack |-> <<16, 16383>>, window |-> <<>>]
      [] format = "seq_7" ->
             [seq |-> <<>>, ack |-> <<16, 32767>>, window |-> <<15, 16383>>]
      [] format = "seq_8" ->
             [seq |-> <<14, 8191>>, ack |-> <<15, 8191>>, window |-> <<>>]
      [] OTHER -> [seq |-> <<>>, ack |-> <<>>, window |-> <<>>]

\* value is in the interpretation interval [ref - p, ref + 2^k - 1 - p] of
\* kp = <<k, p>>, for numbers below 2^16
InInterval16(kp, ref, value) ==
    0 <= value - ref + kp[2] /\ value - ref + kp[2] < 2 ^ kp[1]

\* the same for 32-bit numbers <<high half, low half>>, modulo 2^32, with
\* k up to 18
InInterval32(kp, ref, value) ==
    LET h == (value[1] - ref[1] + Pow16) % Pow16
        high == IF h < Pow16 \div 2 THEN h ELSE h - Pow16
    IN  /\ high \in -4..4
        /\ 0 <= high * Pow16 + value[2] - ref[2] + kp[2]
        /\ high * Pow16 + value[2] - ref[2] + kp[2] < 2 ^ kp[1]

\* C32: in every CO packet the sequence number, the acknowledgment number
\* and the window that the format of the packet gives to c_lsb(k, p, ref,
\* value) are in the interpretation interval [ref - p, ref + 2^k - 1 - p]
\* of the reference the call is given.
C32_LsbInInterval ==
    [][EncodeStep /\ ret' > 0 /\ rohc'.type = "CO" =>
           LET f == LsbFields(rohc'.format)
           IN  /\ f.seq # <<>> =>
                      InInterval32(f.seq, tcp_context.seq_number,
                                   ntohl(pkt.tcp.seq_number))
               /\ f.ack # <<>> =>
                      InInterval32(f.ack, tcp_context.ack_number,
                                   ntohl(pkt.tcp.ack_number))
               /\ f.window # <<>> =>
                      InInterval16(f.window,
                                   ntohs(tcp_context.old_tcphdr.window),
                                   ntohs(pkt.tcp.window))]_vars

\* C33: in state SO, when the TSval of a TIMESTAMP option differs from the
\* cached one in its 3 most significant bits, the bytes written for the
\* option are not the two timestamp-LSB fields of any timestamps: a reader
\* of the compressed value can tell them from a compressed encoding.
C33_TsFallbackDistinct ==
    [][\A i \in 1..3 :
           /\ TimestampChanged(i)
           /\ ntohl(pkt.tcp.options[i].value[1])[1] \div 8192
                  # ntohl(tcp_context.tcp_option_timestamp[1])[1] \div 8192
           => LET last == tcp_context.tcp_option_timestamp
                  bytes == rohc'.option_values
                  v == TsLsbDecode(ntohl(last[1]), bytes)
                  e == TsLsbDecode(ntohl(last[2]),
                                   SubSeq(bytes, v.used + 1, Len(bytes)))
              IN  ~(v.used > 0 /\ e.used > 0
                    /\ v.used + e.used = Len(bytes))]_vars

\* what a reader of a compressed SACK value finds at position pos: the
\* difference the field carries, in 15, 22 or 30 bits behind the
\* discriminator 0, 10 or 11, and the position behind the field
SackField(bytes, pos) ==
    LET d == bytes[pos]
    IN  IF d < 128
        THEN [diff |-> <<0, d * 256 + bytes[pos + 1]>>, next |-> pos + 2]
        ELSE IF d < 192
        THEN [diff |-> <<d % 64, bytes[pos + 1] * 256 + bytes[pos + 2]>>,
              next |-> pos + 3]
        ELSE [diff |-> <<(d % 64) * 256 + bytes[pos + 1],
                         bytes[pos + 2] * 256 + bytes[pos + 3]>>,
              next |-> pos + 4]

\* a + b modulo 2^32
Plus32(a, b) ==
    <<(a[1] + b[1] + ((a[2] + b[2]) \div Pow16)) % Pow16,
      (a[2] + b[2]) % Pow16>>

\* the n blocks read from position pos on: block_start is the reference
\* plus the first difference, block_end that block_start plus the second
RECURSIVE SackBlocksRead(_, _, _, _)
SackBlocksRead(bytes, pos, reference, n) ==
    IF n = 0 THEN <<>>
    ELSE LET start == SackField(bytes, pos)
             end == SackField(bytes, start.next)
             block_start == Plus32(reference, start.diff)
         IN  <<[block_start |-> block_start,
                block_end |-> Plus32(block_start, end.diff)]>>
             \o SackBlocksRead(bytes, end.next, reference, n - 1)

\* C34: the compressed value of a SACK option holds the number of blocks
\* and, for each block, block_start as its difference from the
\* acknowledgment number and block_end as its difference from the
\* block_start of that block, each in the 15-, 22- or 30-bit form.
C34_SackBlocks ==
    op = "c_tcp_opt_sack" =>
        LET blocks == pkt.tcp.options[1].value
            bytes == rohc.option_values
        IN  /\ bytes[1] = Len(blocks)
            /\ SackBlocksRead(bytes, 2, ntohl(pkt.tcp.ack_number),
                              Len(blocks))
                   = [k \in 1..Len(blocks) |->
                          [block_start |-> ntohl(blocks[k].block_start),
                           block_end |-> ntohl(blocks[k].block_end)]]

\* C35: every value a call of c_tcp_encode assigns to an ip_id_behavior
\* field of the packet it builds, in the dynamic part of an IPv4 header or
\* in co_common, is sequential, sequential-swapped, random or zero.
C35_BehaviorOnWire ==
    op = "encode" /\ ret > 0 =>
        rohc.ip_id_behavior \subseteq
            {IP_ID_BEHAVIOR_SEQUENTIAL, IP_ID_BEHAVIOR_SEQUENTIAL_SWAPPED,
             IP_ID_BEHAVIOR_RANDOM, IP_ID_BEHAVIOR_ZERO}

\* C36: on a flow whose packets are encoded again and again, in the SO
\* state, once a packet whose outer header has a changed TTL is accepted and
\* every later packet carries that TTL, a later packet is encoded with
\* ttl_irregular_chain_flag = 0 (a CO packet whose ttl_hopl_outer_flag is
\* 0; the flag forces co_common, which copies it).
C36_OuterTtlCatchesUp ==
    []<>(op = "encode" /\ ret > 0) =>
        ((/\ state = "SO" /\ op = "check" /\ ret = 1
          /\ pkt.ip[1].ttl_hopl # ip_context[1].ttl_hopl)
             ~> (/\ op = "encode" /\ ret > 0 /\ rohc.type = "CO"
                 /\ rohc.ttl_hopl_outer_flag = 0))

\* C37: the classifier of the innermost IPv4 header tests last_ip_id + 1
\* without reduction modulo 2^16, so that the IP-ID 0x0000 after 0xFFFF
\* takes the sequential behaviour to random, and it tests the byte-swapped
\* counter modulo 2^16, so that in the sequential-swapped and the random
\* behaviour a swapped IP-ID of 0x0000 after a swapped 0xFFFF gives
\* sequential-swapped.
C37_WrapTests ==
    [][EncodeStep /\ ret' > 0 /\ pkt.ip[Len(pkt.ip)].version = 4 =>
           LET c == ip_context[Len(pkt.ip)]
               id == ntohs(pkt.ip[Len(pkt.ip)].ip_id)
               after == ip_context'[Len(pkt.ip)].ip_id_behavior
           IN  /\ (/\ c.ip_id_behavior = IP_ID_BEHAVIOR_SEQUENTIAL
                   /\ c.last_ip_id = 65535 /\ id = 0
                   => after = IP_ID_BEHAVIOR_RANDOM)
               /\ (/\ c.ip_id_behavior \in {IP_ID_BEHAVIOR_SEQUENTIAL_SWAPPED,
                                            IP_ID_BEHAVIOR_RANDOM}
                   /\ swab16(c.last_ip_id) = 65535 /\ swab16(id) = 0
                   => after = IP_ID_BEHAVIOR_SEQUENTIAL_SWAPPED)]_vars

\* a call on a packet with the IP-ID 0x0000 that leaves the behaviour
\* sequential-swapped: only the IP-ID 0xFFFF before it does so
C37_Witness ==
    /\ op = "encode" /\ ret > 0
    /\ pkt.ip[Len(pkt.ip)].version = 4
    /\ ntohs(pkt.ip[Len(pkt.ip)].ip_id) = 0
    /\ ip_context[Len(pkt.ip)].ip_id_behavior
           = IP_ID_BEHAVIOR_SEQUENTIAL_SWAPPED

\* C38: right after c_tcp_create every slot of tcp_options_list is free
\* (0xFF) and tcp_options_free_offset is 0; from then on no call frees a
\* slot that is in use or decreases tcp_options_free_offset.
C38_TableMonotonic ==
    /\ [](op = "create" /\ ret = 1 =>
              /\ \A j \in 0..(MAX_TCP_OPTION_INDEX - 1) :
                     tcp_context.tcp_options_list[j] = 255
              /\ tcp_context.tcp_options_free_offset = 0)
    /\ [][pc # "none" =>
              /\ \A j \in 0..(MAX_TCP_OPTION_INDEX - 1) :
                     tcp_context.tcp_options_list[j] # 255
                         => tcp_context'.tcp_options_list[j] # 255
              /\ tcp_context'.tcp_options_free_offset
                     >= tcp_context.tcp_options_free_offset]_vars

====
